---- MODULE Spec2Model ----
(***************************************************************************)
(* Resume / job-posting scoring, tailoring and workflow execution of the   *)
(* grandproject repository, as a state machine over request/response       *)
(* records.  Text is a sequence of one-character strings, so that the      *)
(* substring, split, replace and regular-expression steps of the source    *)
(* are computed character by character.  Fractional quantities are kept    *)
(* as integers scaled by ten (importance 7.2 is 72).                       *)
(***************************************************************************)
EXTENDS Integers, Sequences, FiniteSets, TLC

(***************************************************************************)
(* JavaScript string primitives                                            *)
(***************************************************************************)

UpperLetters == <<"A","B","C","D","E","F","G","H","I","J","K","L","M",
                  "N","O","P","Q","R","S","T","U","V","W","X","Y","Z">>
LowerLetters == <<"a","b","c","d","e","f","g","h","i","j","k","l","m",
                  "n","o","p","q","r","s","t","u","v","w","x","y","z">>
Digits == {"0","1","2","3","4","5","6","7","8","9"}

Range(f) == {f[i] : i \in DOMAIN f}

\* \w of a JavaScript regular expression
WordChars == Range(UpperLetters) \cup Range(LowerLetters) \cup Digits \cup {"_"}
\* \s of a JavaScript regular expression (the members the model's texts use)
SpaceChars == {" ", "\n", "\t"}

LowerChar(c) ==
  IF c \in Range(UpperLetters)
    THEN LowerLetters[CHOOSE i \in 1..26 : UpperLetters[i] = c]
    ELSE c

ToLowerCase(s) == [i \in 1..Len(s) |-> LowerChar(s[i])]

\* s.substring starting at 1-based position p has sub as a prefix
MatchesAt(s, sub, p) ==
  /\ p + Len(sub) - 1 <= Len(s)
  /\ \A j \in 1..Len(sub) : s[p + j - 1] = sub[j]

\* String.prototype.includes
Includes(s, sub) == \E p \in 1..(Len(s) - Len(sub) + 1) : MatchesAt(s, sub, p)

\* String.prototype.indexOf, 1-based; 0 when absent
IndexOf(s, sub) ==
  IF Includes(s, sub)
    THEN CHOOSE p \in 1..(Len(s) - Len(sub) + 1) :
           /\ MatchesAt(s, sub, p)
           /\ \A q \in 1..(p - 1) : ~MatchesAt(s, sub, q)
    ELSE 0

StartsWith(s, sub) == MatchesAt(s, sub, 1)

\* String.prototype.trim
Trim(s) ==
  LET keep == {i \in 1..Len(s) : s[i] \notin SpaceChars}
  IN IF keep = {} THEN << >>
     ELSE SubSeq(s, CHOOSE i \in keep : \A j \in keep : i <= j,
                    CHOOSE i \in keep : \A j \in keep : i >= j)

\* the k-th element of a set of positions, in ascending order
NthOf(positions, k) ==
  CHOOSE p \in positions : Cardinality({q \in positions : q < p}) = k - 1

\* the parts of s[start..] that the separators at the given positions leave
SplitAt(s, positions, start) ==
  [k \in 1..(Cardinality(positions) + 1) |->
     SubSeq(s,
            IF k = 1 THEN start ELSE NthOf(positions, k - 1) + 1,
            IF k = Cardinality(positions) + 1 THEN Len(s) ELSE NthOf(positions, k) - 1)]

\* the parts of s[start..] that the separator characters from position i on
\* leave
SplitFrom(s, seps, i, start) == SplitAt(s, {p \in i..Len(s) : s[p] \in seps}, start)

\* String.prototype.split on one separator character
SplitChar(s, sep) == SplitFrom(s, {sep}, 1, 1)

\* String.prototype.split(/\s+/): runs of white space separate; a leading
\* or trailing run leaves an empty first or last element
SplitWs(s) ==
  LET parts == SplitFrom(s, SpaceChars, 1, 1)
      keep == {i \in 1..Len(parts) : i = 1 \/ i = Len(parts) \/ parts[i] # << >>}
  IN [k \in 1..Cardinality(keep) |->
        parts[CHOOSE i \in keep : Cardinality({j \in keep : j < i}) = k - 1]]

RECURSIVE JoinWith(_, _)
\* Array.prototype.join
JoinWith(parts, sep) ==
  IF Len(parts) = 0 THEN << >>
  ELSE IF Len(parts) = 1 THEN parts[1]
  ELSE parts[1] \o sep \o JoinWith(Tail(parts), sep)

\* replace(/\s+/g, ' ')
CollapseWs(s) == JoinWith(SplitWs(s), <<" ">>)

\* the elements of seq at the indices in keep, in order
AtIndices(seq, keep) ==
  [k \in 1..Cardinality(keep) |->
     seq[CHOOSE i \in keep : Cardinality({j \in keep : j < i}) = k - 1]]

DedupeDroppingRepeats(seq) ==
  AtIndices(seq, {i \in 1..Len(seq) : \A j \in 1..Len(seq) : j # i => seq[j] # seq[i]})
\* [...new Set(seq)]: first occurrences, in order
Dedupe(seq) ==
  AtIndices(seq, {i \in 1..Len(seq) : \A j \in 1..(i - 1) : seq[j] # seq[i]})

\* the replacement text of String.prototype.replace: $$ stands for one $
\* ($& is the matched text, $` the text before it, $' the text after it)
RECURSIVE ExpandDollar(_, _, _, _)
ExpandDollar(t, matched, before, after) ==
  IF Len(t) < 2 THEN t
  ELSE IF t[1] = "$" /\ t[2] \in {"$", "&", "`", "'"}
    THEN (CASE t[2] = "$" -> <<"$">>
            [] t[2] = "&" -> matched
            [] t[2] = "`" -> before
            [] t[2] = "'" -> after)
         \o ExpandDollar(SubSeq(t, 3, Len(t)), matched, before, after)
  ELSE <<t[1]>> \o ExpandDollar(Tail(t), matched, before, after)

\* String.prototype.replace(original, replacement) with a string pattern:
\* the first occurrence only
ReplaceFirst(s, original, replacement) ==
  LET p == IndexOf(s, original)
  IN IF p = 0 THEN s
     ELSE SubSeq(s, 1, p - 1)
          \o (IF Includes(replacement, <<"$">>)
                THEN ExpandDollar(replacement, original, SubSeq(s, 1, p - 1),
                                  SubSeq(s, p + Len(original), Len(s)))
                ELSE replacement)
          \o SubSeq(s, p + Len(original), Len(s))

RECURSIVE SumSeq(_)
SumSeq(q) == IF Len(q) = 0 THEN 0 ELSE Head(q) + SumSeq(Tail(q))

Min(a, b) == IF a <= b THEN a ELSE b
Max(a, b) == IF a >= b THEN a ELSE b

\* Body of value: a value computed once and used under a name (const name =
\* value of the source); the test computes it before the body, as the
\* source does
With(value, Body(_)) == IF value = value THEN Body(value) ELSE Body(value)

\* s with every character outside kept turned into a space
\* (replace(/[^...]/g, ' '))
KeepOnly(s, kept) == [i \in 1..Len(s) |-> IF s[i] \in kept THEN s[i] ELSE " "]

(***************************************************************************)
(* JavaScript numbers and regular expressions                              *)
(***************************************************************************)

\* the value NaN: what Math.min yields for a base score that is no number
NaN == -999

IsNaN(v) == v = NaN
NumAdd(a, b) == IF IsNaN(a) \/ IsNaN(b) THEN NaN ELSE a + b
\* Math.min
NumMin(a, b) == IF IsNaN(a) \/ IsNaN(b) THEN NaN ELSE Min(a, b)
\* a >= b of JavaScript: false when either side is NaN
NumGe(a, b) == ~IsNaN(a) /\ ~IsNaN(b) /\ a >= b
NumLt(a, b) == ~IsNaN(a) /\ ~IsNaN(b) /\ a < b

\* Math.round(100 * num / den) for num >= 0, den > 0: half rounds up
RoundPercent(num, den) == (200 * num + den) \div (2 * den)

\* new RegExp(pattern) throws SyntaxError.  The patterns the model builds are
\* over letters, digits, '_', ' ', '.', '-', '/', '+', '(' and '[': a group or
\* a class that is opened is never closed, and '+' needs an atom to repeat.
RegexSyntaxError(pattern) ==
  \E i \in 1..Len(pattern) :
     \/ pattern[i] \in {"(", "["}
     \/ pattern[i] = "+" /\ (i = 1 \/ pattern[i - 1] = "+")

\* one pattern atom against one character; '.' is any character but a line end
AtomMatches(a, c) == IF a = "." THEN c # "\n" ELSE c = a

RECURSIVE MatchEnd(_, _, _, _)
\* the position after the match of pattern[k..] at text position j (greedy,
\* backtracking over '+'), or 0 when there is none
MatchEnd(pattern, k, text, j) ==
  IF k > Len(pattern) THEN j
  ELSE IF k < Len(pattern) /\ pattern[k + 1] = "+"
    THEN LET reps == {r \in 1..(Len(text) - j + 1) :
                        /\ \A q \in 0..(r - 1) : AtomMatches(pattern[k], text[j + q])
                        /\ MatchEnd(pattern, k + 2, text, j + r) # 0}
         IN IF reps = {} THEN 0
            ELSE MatchEnd(pattern, k + 2, text, j + (CHOOSE r \in reps : \A q \in reps : q <= r))
  ELSE IF j <= Len(text) /\ AtomMatches(pattern[k], text[j])
    THEN MatchEnd(pattern, k + 1, text, j + 1)
    ELSE 0

\* the first position from j on where the pattern matches, or 0
FirstMatchFrom(pattern, text, j) ==
  IF \E p \in j..(Len(text) + 1) : MatchEnd(pattern, 1, text, p) # 0
    THEN CHOOSE p \in j..(Len(text) + 1) :
           /\ MatchEnd(pattern, 1, text, p) # 0
           /\ \A q \in j..(p - 1) : MatchEnd(pattern, 1, text, q) = 0
    ELSE 0

\* the matches of the g flag from position j on: the search goes on after a
\* match, one position further after an empty one
RECURSIVE CountFrom(_, _, _)
CountAfter(pattern, text, p, e) ==
  1 + CountFrom(pattern, text, IF e = p THEN p + 1 ELSE e)

CountAt(pattern, text, p) ==
  IF p = 0 THEN 0 ELSE CountAfter(pattern, text, p, MatchEnd(pattern, 1, text, p))

CountFrom(pattern, text, j) == CountAt(pattern, text, FirstMatchFrom(pattern, text, j))

\* (text.match(new RegExp(pattern, 'g')) || []).length for a valid pattern
RegexCount(pattern, text) == CountFrom(pattern, text, 1)

\* the first position from j on where text has the word, or 0
FirstOccurrenceFrom(word, text, j) ==
  IF \E p \in j..(Len(text) - Len(word) + 1) : MatchesAt(text, word, p)
    THEN CHOOSE p \in j..(Len(text) - Len(word) + 1) :
           /\ MatchesAt(text, word, p)
           /\ \A q \in j..(p - 1) : ~MatchesAt(text, word, q)
    ELSE 0

RECURSIVE LiteralCountFrom(_, _, _)
LiteralCountAt(word, text, p) ==
  IF p = 0 THEN 0
  ELSE 1 + LiteralCountFrom(word, text, IF Len(word) = 0 THEN p + 1 ELSE p + Len(word))

LiteralCountFrom(word, text, j) ==
  LiteralCountAt(word, text, FirstOccurrenceFrom(word, text, j))

(***************************************************************************)
(* keyword-analyzer.ts                                                     *)
(***************************************************************************)

WeightsTechnical ==
  <<<<<<"j","a","v","a","s","c","r","i","p","t">>, 10>>,
  <<<<"p","y","t","h","o","n">>, 10>>,
  <<<<"r","e","a","c","t">>, 9>>,
  <<<<"n","o","d","e",".","j","s">>, 9>>,
  <<<<"a","w","s">>, 9>>,
  <<<<"s","q","l">>, 8>>,
  <<<<"d","o","c","k","e","r">>, 8>>,
  <<<<"k","u","b","e","r","n","e","t","e","s">>, 8>>,
  <<<<"g","i","t">>, 7>>,
  <<<<"m","o","n","g","o","d","b">>, 7>>,
  <<<<"t","y","p","e","s","c","r","i","p","t">>, 8>>,
  <<<<"n","e","x","t",".","j","s">>, 8>>,
  <<<<"p","o","s","t","g","r","e","s","q","l">>, 7>>,
  <<<<"r","e","d","i","s">>, 6>>,
  <<<<"g","r","a","p","h","q","l">>, 7>>,
  <<<<"r","e","s","t"," ","a","p","i">>, 8>>,
  <<<<"m","i","c","r","o","s","e","r","v","i","c","e","s">>, 8>>,
  <<<<"d","e","v","o","p","s">>, 8>>,
  <<<<"c","i","/","c","d">>, 7>>,
  <<<<"j","e","n","k","i","n","s">>, 6>>,
  <<<<"t","e","r","r","a","f","o","r","m">>, 7>>,
  <<<<"l","i","n","u","x">>, 6>>>>
WeightsSoft ==
  <<<<<<"l","e","a","d","e","r","s","h","i","p">>, 8>>,
  <<<<"c","o","m","m","u","n","i","c","a","t","i","o","n">>, 7>>,
  <<<<"t","e","a","m","w","o","r","k">>, 6>>,
  <<<<"p","r","o","b","l","e","m"," ","s","o","l","v","i","n","g">>, 8>>,
  <<<<"a","n","a","l","y","t","i","c","a","l">>, 7>>,
  <<<<"c","r","e","a","t","i","v","e">>, 6>>,
  <<<<"d","e","t","a","i","l"," ","o","r","i","e","n","t","e","d">>, 6>>,
  <<<<"o","r","g","a","n","i","z","e","d">>, 5>>,
  <<<<"c","o","l","l","a","b","o","r","a","t","i","v","e">>, 6>>,
  <<<<"a","d","a","p","t","a","b","l","e">>, 6>>,
  <<<<"i","n","n","o","v","a","t","i","v","e">>, 7>>,
  <<<<"s","t","r","a","t","e","g","i","c">>, 7>>>>
WeightsAction ==
  <<<<<<"d","e","v","e","l","o","p","e","d">>, 8>>,
  <<<<"i","m","p","l","e","m","e","n","t","e","d">>, 8>>,
  <<<<"m","a","n","a","g","e","d">>, 7>>,
  <<<<"l","e","d">>, 8>>,
  <<<<"c","r","e","a","t","e","d">>, 7>>,
  <<<<"d","e","s","i","g","n","e","d">>, 7>>,
  <<<<"o","p","t","i","m","i","z","e","d">>, 8>>,
  <<<<"i","m","p","r","o","v","e","d">>, 7>>,
  <<<<"b","u","i","l","t">>, 6>>,
  <<<<"d","e","l","i","v","e","r","e","d">>, 6>>,
  <<<<"a","c","h","i","e","v","e","d">>, 7>>,
  <<<<"i","n","c","r","e","a","s","e","d">>, 8>>,
  <<<<"r","e","d","u","c","e","d">>, 8>>,
  <<<<"s","t","r","e","a","m","l","i","n","e","d">>, 7>>>>
WeightsIndustry ==
  <<<<<<"a","g","i","l","e">>, 7>>,
  <<<<"s","c","r","u","m">>, 6>>,
  <<<<"k","a","n","b","a","n">>, 5>>,
  <<<<"j","i","r","a">>, 5>>,
  <<<<"c","o","n","f","l","u","e","n","c","e">>, 4>>,
  <<<<"s","t","a","r","t","u","p">>, 6>>,
  <<<<"e","n","t","e","r","p","r","i","s","e">>, 6>>,
  <<<<"b","2","b">>, 5>>,
  <<<<"b","2","c">>, 5>>,
  <<<<"s","a","a","s">>, 7>>,
  <<<<"f","i","n","t","e","c","h">>, 6>>,
  <<<<"h","e","a","l","t","h","c","a","r","e">>, 6>>,
  <<<<"e","-","c","o","m","m","e","r","c","e">>, 6>>,
  <<<<"m","o","b","i","l","e">>, 6>>>>
WeightsCertification ==
  <<<<<<"a","w","s"," ","c","e","r","t","i","f","i","e","d">>, 9>>,
  <<<<"g","o","o","g","l","e"," ","c","l","o","u","d">>, 8>>,
  <<<<"a","z","u","r","e">>, 7>>,
  <<<<"p","m","p">>, 6>>,
  <<<<"s","c","r","u","m"," ","m","a","s","t","e","r">>, 6>>,
  <<<<"c","e","r","t","i","f","i","e","d">>, 5>>,
  <<<<"p","r","o","f","e","s","s","i","o","n","a","l">>, 4>>>>

KEYWORD_WEIGHTS(category) ==
  CASE category = "technical" -> WeightsTechnical
    [] category = "soft" -> WeightsSoft
    [] category = "action" -> WeightsAction
    [] category = "industry" -> WeightsIndustry
    [] category = "certification" -> WeightsCertification

STOP_WORDS ==
  <<<<"t","h","e">>, <<"a">>, <<"a","n">>, <<"a","n","d">>, <<"o","r">>, <<"b","u","t">>, <<"i","n">>, <<"o","n">>,
  <<"a","t">>, <<"t","o">>, <<"f","o","r">>, <<"o","f">>, <<"w","i","t","h">>, <<"b","y">>, <<"f","r","o","m">>, <<"u","p">>,
  <<"a","b","o","u","t">>, <<"i","n","t","o">>, <<"t","h","r","o","u","g","h">>, <<"d","u","r","i","n","g">>, <<"b","e","f","o","r","e">>, <<"a","f","t","e","r">>, <<"a","b","o","v","e">>, <<"b","e","l","o","w">>,
  <<"b","e","t","w","e","e","n">>, <<"a","m","o","n","g">>, <<"i","s">>, <<"a","r","e">>, <<"w","a","s">>, <<"w","e","r","e">>, <<"b","e">>, <<"b","e","e","n">>,
  <<"b","e","i","n","g">>, <<"h","a","v","e">>, <<"h","a","s">>, <<"h","a","d">>, <<"d","o">>, <<"d","o","e","s">>, <<"d","i","d">>, <<"w","i","l","l">>,
  <<"w","o","u","l","d">>, <<"c","o","u","l","d">>, <<"s","h","o","u","l","d">>, <<"m","a","y">>, <<"m","i","g","h","t">>, <<"m","u","s","t">>, <<"c","a","n">>, <<"t","h","i","s">>,
  <<"t","h","a","t">>, <<"t","h","e","s","e">>, <<"t","h","o","s","e">>, <<"i">>, <<"y","o","u">>, <<"h","e">>, <<"s","h","e">>, <<"i","t">>,
  <<"w","e">>, <<"t","h","e","y">>, <<"m","e">>, <<"h","i","m">>, <<"h","e","r">>, <<"u","s">>, <<"t","h","e","m">>, <<"m","y">>,
  <<"y","o","u","r">>, <<"h","i","s">>, <<"h","e","r">>, <<"i","t","s">>, <<"o","u","r">>, <<"t","h","e","i","r">>, <<"a","l","l">>, <<"a","n","y">>,
  <<"b","o","t","h">>, <<"e","a","c","h">>, <<"f","e","w">>, <<"m","o","r","e">>, <<"m","o","s","t">>, <<"o","t","h","e","r">>, <<"s","o","m","e">>, <<"s","u","c","h">>,
  <<"n","o">>, <<"n","o","r">>, <<"n","o","t">>, <<"o","n","l","y">>, <<"o","w","n">>, <<"s","a","m","e">>, <<"s","o">>, <<"t","h","a","n">>,
  <<"t","o","o">>, <<"v","e","r","y">>, <<"o","n","e">>, <<"a","l","s","o">>, <<"j","u","s","t">>, <<"n","o","w">>, <<"h","e","r","e">>, <<"t","h","e","r","e">>,
  <<"w","h","e","n">>, <<"w","h","e","r","e">>, <<"w","h","y">>, <<"h","o","w">>>>

TechnicalPhrases ==
  <<<<"m","a","c","h","i","n","e"," ","l","e","a","r","n","i","n","g">>, <<"a","r","t","i","f","i","c","i","a","l"," ","i","n","t","e","l","l","i","g","e",
        "n","c","e">>, <<"d","a","t","a"," ","s","c","i","e","n","c","e">>, <<"f","u","l","l"," ","s","t","a","c","k">>,
  <<"f","r","o","n","t"," ","e","n","d">>, <<"b","a","c","k"," ","e","n","d">>, <<"d","e","v"," ","o","p","s">>, <<"c","l","o","u","d"," ","c","o","m","p","u","t","i","n","g">>,
  <<"r","e","s","t"," ","a","p","i">>, <<"g","r","a","p","h","q","l"," ","a","p","i">>, <<"m","i","c","r","o"," ","s","e","r","v","i","c","e","s">>, <<"d","i","s","t","r","i","b","u","t","e","d"," ","s","y","s","t","e","m","s">>,
  <<"c","i"," ","c","d">>, <<"t","e","s","t"," ","d","r","i","v","e","n"," ","d","e","v","e","l","o","p","m",
        "e","n","t">>, <<"a","g","i","l","e"," ","d","e","v","e","l","o","p","m","e","n","t">>, <<"v","e","r","s","i","o","n"," ","c","o","n","t","r","o","l">>,
  <<"c","o","d","e"," ","r","e","v","i","e","w">>, <<"p","a","i","r"," ","p","r","o","g","r","a","m","m","i","n","g">>>>
BusinessPhrases ==
  <<<<"p","r","o","j","e","c","t"," ","m","a","n","a","g","e","m","e","n","t">>, <<"p","r","o","d","u","c","t"," ","m","a","n","a","g","e","m","e","n","t">>, <<"b","u","s","i","n","e","s","s"," ","a","n","a","l","y","s","i","s">>, <<"s","t","a","k","e","h","o","l","d","e","r"," ","m","a","n","a","g","e","m","e",
        "n","t">>,
  <<"c","r","o","s","s"," ","f","u","n","c","t","i","o","n","a","l">>, <<"t","e","a","m"," ","l","e","a","d","e","r","s","h","i","p">>, <<"p","r","o","c","e","s","s"," ","i","m","p","r","o","v","e","m","e","n","t">>, <<"c","o","s","t"," ","r","e","d","u","c","t","i","o","n">>,
  <<"r","e","v","e","n","u","e"," ","g","r","o","w","t","h">>, <<"c","u","s","t","o","m","e","r"," ","s","a","t","i","s","f","a","c","t","i","o",
        "n">>, <<"u","s","e","r"," ","e","x","p","e","r","i","e","n","c","e">>, <<"m","a","r","k","e","t"," ","r","e","s","e","a","r","c","h">>>>

\* the lower-case property names every object literal inherits from
\* Object.prototype: an index by one of them yields a non-number
InheritedKeys == {<<"c","o","n","s","t","r","u","c","t","o","r">>, <<"_","_","p","r","o","t","o","_","_">>}

extractPhrases(text) ==
  SelectSeq(TechnicalPhrases \o BusinessPhrases, LAMBDA phrase : Includes(text, phrase))

\* .toLowerCase().replace(/[^\w\s.-]/g, ' ').replace(/\s+/g, ' ').trim()
CleanKeywordText(text) ==
  Trim(CollapseWs(KeepOnly(ToLowerCase(text), WordChars \cup SpaceChars \cup {".", "-"})))

extractKeywords(text) ==
  IF Trim(text) = << >> THEN << >>
  ELSE With(CleanKeywordText(text), LAMBDA cleanText :
         Dedupe(extractPhrases(cleanText)
                \o SelectSeq(SplitChar(cleanText, " "),
                             LAMBDA word : Len(word) > 2 /\ word \notin Range(STOP_WORDS))))

HasKeyIn(table, lowerKeyword) ==
  \E i \in 1..Len(table) : Includes(lowerKeyword, table[i][1])

categorizeKeyword(keyword) ==
  With(ToLowerCase(keyword), LAMBDA lowerKeyword :
    IF HasKeyIn(WeightsTechnical, lowerKeyword) THEN "technical"
    ELSE IF HasKeyIn(WeightsAction, lowerKeyword) THEN "action"
    ELSE IF HasKeyIn(WeightsCertification, lowerKeyword) THEN "certification"
    ELSE IF HasKeyIn(WeightsIndustry, lowerKeyword) THEN "industry"
    ELSE "soft")

\* the frequency step compiles the keyword itself as a pattern
KeywordRegexThrows(keyword) == RegexSyntaxError(ToLowerCase(keyword))

ContextBoost(contextLower) ==
  IF \/ Includes(contextLower, <<"r","e","q","u","i","r","e","d">>)
     \/ Includes(contextLower, <<"m","u","s","t">>)
     \/ Includes(contextLower, <<"e","s","s","e","n","t","i","a","l">>)
    THEN 30 ELSE 0

FrequencyBoost(frequency) == IF frequency > 2 THEN 10 * Min(frequency - 1, 3) ELSE 0

BaseScoreOfPartialMatch(categoryWeights, own, partial) ==
  IF partial = {} THEN 50
  ELSE Max(50, 8 * categoryWeights[CHOOSE i \in partial :
                    \A j \in partial : categoryWeights[j][2] <= categoryWeights[i][2]][2])
\* the base score times ten: the keyword's own weight, or eight tenths of the
\* greatest weight of the entries that contain it or that it contains
BaseScore(categoryWeights, own, partial) ==
  IF own # {} THEN 10 * categoryWeights[CHOOSE i \in own : TRUE][2]
  ELSE IF partial = {} THEN 50
  ELSE Max(50, 8 * categoryWeights[CHOOSE i \in partial :
                    \A j \in partial : categoryWeights[j][2] <= categoryWeights[i][2]][2])

\* baseScore, times ten, before the frequency step
ScoreBeforeFrequency(lowerKeyword, categoryWeights, contextLower) ==
  BaseScore(categoryWeights,
            {i \in 1..Len(categoryWeights) : categoryWeights[i][1] = lowerKeyword},
            {i \in 1..Len(categoryWeights) :
               \/ Includes(lowerKeyword, categoryWeights[i][1])
               \/ Includes(categoryWeights[i][1], lowerKeyword)})
  + ContextBoost(contextLower)
  + (IF Includes(contextLower, <<"y","e","a","r","s">>) /\ Includes(contextLower, lowerKeyword)
       THEN 20 ELSE 0)

ImportanceOf(lowerKeyword, categoryWeights, contextLower) ==
  IF /\ \A i \in 1..Len(categoryWeights) : categoryWeights[i][1] # lowerKeyword
     /\ lowerKeyword \in InheritedKeys
    THEN NaN
    ELSE Min(ScoreBeforeFrequency(lowerKeyword, categoryWeights, contextLower)
             + FrequencyBoost(RegexCount(lowerKeyword, contextLower)),
             150)

\* importance times ten, or NaN; defined when the keyword compiles
calculateKeywordImportance(keyword, category, context) ==
  ImportanceOf(ToLowerCase(keyword), KEYWORD_WEIGHTS(category), ToLowerCase(context))

\* String.prototype.split(/\s+/) and a substring test per word
calculateKeywordDensityOver(text, keyword) ==
  With(SplitWs(ToLowerCase(text)), LAMBDA words :
    [count |-> Cardinality({i \in 1..Len(words) :
                              Includes(words[i], ToLowerCase(keyword))}),
     words |-> Len(words)])


(***************************************************************************)
(* ats-scorer.ts                                                           *)
(***************************************************************************)

Synonyms ==
  << <<<<"j","a","v","a","s","c","r","i","p","t">>, <<<<"j","s">>, <<"e","c","m","a","s","c","r","i","p","t">>>> >>,
     <<<<"p","y","t","h","o","n">>, <<<<"p","y">>>> >>,
     <<<<"d","a","t","a","b","a","s","e">>, <<<<"d","b">>, <<"s","q","l">>>> >>,
     <<<<"f","r","o","n","t","e","n","d">>, <<<<"f","r","o","n","t","-","e","n","d">>, <<"f","r","o","n","t"," ","e","n","d">>>> >>,
     <<<<"b","a","c","k","e","n","d">>, <<<<"b","a","c","k","-","e","n","d">>, <<"b","a","c","k"," ","e","n","d">>>> >>,
     <<<<"f","u","l","l","s","t","a","c","k">>, <<<<"f","u","l","l","-","s","t","a","c","k">>, <<"f","u","l","l"," ","s","t","a","c","k">>>> >> >>

LowerCaseMatch(resume, job) ==
  \/ resume = job
  \/ Includes(resume, job)
  \/ Includes(job, resume)
  \/ \E i \in 1..Len(Synonyms) :
       \/ resume = Synonyms[i][1] /\ job \in Range(Synonyms[i][2])
       \/ job = Synonyms[i][1] /\ resume \in Range(Synonyms[i][2])

isKeywordMatch(resumeKeyword, jobKeyword) ==
  LowerCaseMatch(ToLowerCase(resumeKeyword), ToLowerCase(jobKeyword))

\* importance times ten of each job keyword, in the keywords' order (the
\* descending sort of analyzeKeywordImportance does not change a sum)
analyzeKeywordImportance(keywords, context) ==
  [i \in 1..Len(keywords) |->
     [keyword |-> keywords[i],
      importance |-> calculateKeywordImportance(keywords[i], categorizeKeyword(keywords[i]),
                                                context)]]

RECURSIVE NumSum(_)
NumSum(q) == IF Len(q) = 0 THEN 0 ELSE NumAdd(Head(q), NumSum(Tail(q)))

\* the importance-weighted match percentage of a non-empty keyword list
\* (ats-scorer.ts lines 95-116); defined when no keyword makes the
\* importance step throw
MatchPercentage(resumeKeywords, keywordImportance) ==
  With(NumSum([i \in 1..Len(keywordImportance) |-> keywordImportance[i].importance]),
       LAMBDA totalImportance :
    IF IsNaN(totalImportance) THEN NaN
    ELSE IF totalImportance = 0 THEN 100
    ELSE Min(RoundPercent(
               NumSum([i \in 1..Len(keywordImportance) |->
                         IF \E r \in 1..Len(resumeKeywords) :
                               isKeywordMatch(resumeKeywords[r], keywordImportance[i].keyword)
                           THEN keywordImportance[i].importance ELSE 0]),
               totalImportance),
             100))

WeightedKeywordMatch(resumeText, jobKeywords) ==
  MatchPercentage(extractKeywords(resumeText),
                  analyzeKeywordImportance(jobKeywords, resumeText))

calculateKeywordMatchScoreEmptyIsZero(resumeText, jobKeywords) ==
  IF Len(jobKeywords) = 0 THEN 0 ELSE WeightedKeywordMatch(resumeText, jobKeywords)
calculateKeywordMatchScore(resumeText, jobKeywords) ==
  IF Len(jobKeywords) = 0 THEN 100 ELSE WeightedKeywordMatch(resumeText, jobKeywords)

identifyFormatIssues(resumeText) ==
  (IF Includes(resumeText, <<"\t">>) \/ Includes(resumeText, <<" ", " ">>)
     THEN <<"Inconsistent spacing">> ELSE << >>)
  \o (IF \E i \in 1..Len(resumeText) :
           resumeText[i] \notin WordChars \cup SpaceChars \cup {".", ",", "!", "?", "(", ")", "-"}
        THEN <<"Unusual characters found">> ELSE << >>)
  \o With(ToLowerCase(resumeText), LAMBDA lower :
        IF ~(\/ Includes(lower, <<"e","x","p","e","r","i","e","n","c","e">>)
             \/ Includes(lower, <<"e","d","u","c","a","t","i","o","n">>)
             \/ Includes(lower, <<"s","k","i","l","l","s">>))
          THEN <<"Missing standard sections">> ELSE << >>)

FormatDeduction(issue) ==
  CASE issue = "Complex formatting detected" -> 15
    [] issue = "Unusual characters found" -> 10
    [] issue = "Inconsistent spacing" -> 5
    [] issue = "Missing standard sections" -> 20
    [] OTHER -> 5

TotalFormatDeduction(formatIssues) ==
  SumSeq([i \in 1..Len(formatIssues) |-> FormatDeduction(formatIssues[i])])

calculateFormatScore(resumeText) ==
  Max(100 - TotalFormatDeduction(identifyFormatIssues(resumeText)), 0)

StrongActionVerbs ==
  <<<<"a","c","h","i","e","v","e","d">>, <<"i","m","p","r","o","v","e","d">>, <<"i","n","c","r","e","a","s","e","d">>, <<"r","e","d","u","c","e","d">>, <<"d","e","v","e","l","o","p","e","d">>,
    <<"i","m","p","l","e","m","e","n","t","e","d">>, <<"m","a","n","a","g","e","d">>, <<"l","e","d">>, <<"c","r","e","a","t","e","d">>, <<"o","p","t","i","m","i","z","e","d">>>>

GenericPhrases == <<<<"r","e","s","p","o","n","s","i","b","l","e"," ","f","o","r">>, <<"d","u","t","i","e","s"," ","i","n","c","l","u","d","e","d">>, <<"w","o","r","k","e","d"," ","o","n">>>>

identifyContentIssues(resumeText) ==
  With(ToLowerCase(resumeText), LAMBDA lower :
    (IF ~\E i \in 1..Len(resumeText) : resumeText[i] \in Digits \cup {"%", "$"}
       THEN <<"Missing quantifiable achievements">> ELSE << >>)
    \o (IF ~\E v \in 1..Len(StrongActionVerbs) : Includes(lower, StrongActionVerbs[v])
          THEN <<"Weak action verbs">> ELSE << >>)
    \o (IF ~Includes(lower, <<"s","k","i","l","l">>)
          THEN <<"Missing skills section">> ELSE << >>)
    \o (IF \E g \in 1..Len(GenericPhrases) : Includes(lower, GenericPhrases[g])
          THEN <<"Generic job descriptions">> ELSE << >>))

ContentDeductionWithoutSkillsCase(issue) ==
  CASE issue = "Missing quantifiable achievements" -> 15
    [] issue = "Weak action verbs" -> 10
    [] issue = "No relevant keywords" -> 20
    [] issue = "Generic job descriptions" -> 12
    [] OTHER -> 5
ContentDeduction(issue) ==
  CASE issue = "Missing quantifiable achievements" -> 15
    [] issue = "Weak action verbs" -> 10
    [] issue = "No relevant keywords" -> 20
    [] issue = "Generic job descriptions" -> 12
    [] issue = "Missing skills section" -> 15
    [] OTHER -> 5

TotalContentDeduction(contentIssues) ==
  SumSeq([i \in 1..Len(contentIssues) |-> ContentDeduction(contentIssues[i])])

calculateContentScore(resumeText) ==
  Max(100 - TotalContentDeduction(identifyContentIssues(resumeText)), 0)

\* the length score of a resume of wordCount words
LengthBand(wordCount) ==
  IF wordCount >= 400 /\ wordCount <= 800 THEN 100
  ELSE IF wordCount >= 300 /\ wordCount <= 1000 THEN 85
  ELSE IF wordCount >= 200 /\ wordCount <= 1200 THEN 70
  ELSE IF wordCount < 200 THEN 40
  ELSE 50

calculateLengthScore(resumeText) == LengthBand(Len(SplitWs(resumeText)))

SectionKeywords ==
  <<<<"s","u","m","m","a","r","y">>, <<"o","b","j","e","c","t","i","v","e">>, <<"p","r","o","f","i","l","e">>,
    <<"e","x","p","e","r","i","e","n","c","e">>, <<"w","o","r","k"," ","h","i","s","t","o","r","y">>, <<"e","m","p","l","o","y","m","e","n","t">>,
    <<"e","d","u","c","a","t","i","o","n">>, <<"a","c","a","d","e","m","i","c">>,
    <<"s","k","i","l","l","s">>, <<"t","e","c","h","n","i","c","a","l"," ","s","k","i","l","l","s">>, <<"c","o","m","p","e","t","e","n","c","i","e","s">>,
    <<"p","r","o","j","e","c","t","s">>, <<"p","o","r","t","f","o","l","i","o">>,
    <<"c","e","r","t","i","f","i","c","a","t","i","o","n","s">>, <<"l","i","c","e","n","s","e","s">>,
    <<"a","w","a","r","d","s">>, <<"a","c","h","i","e","v","e","m","e","n","t","s">>,
    <<"p","u","b","l","i","c","a","t","i","o","n","s">>, <<"r","e","s","e","a","r","c","h">>>>

\* the section keywords the lines from the i-th on hold, line by line
RECURSIVE SectionsFrom(_, _)
SectionsFrom(lines, i) ==
  IF i > Len(lines) THEN << >>
  ELSE SelectSeq(SectionKeywords,
                 LAMBDA keyword : /\ Includes(ToLowerCase(Trim(lines[i])), keyword)
                                  /\ Len(lines[i]) < 50)
       \o SectionsFrom(lines, i + 1)

identifyResumeSections(resumeText) ==
  Dedupe(SectionsFrom(SplitChar(resumeText, "\n"), 1))

IdealOrder ==
  <<<<"s","u","m","m","a","r","y">>, <<"o","b","j","e","c","t","i","v","e">>, <<"p","r","o","f","i","l","e">>,
    <<"e","x","p","e","r","i","e","n","c","e">>, <<"w","o","r","k"," ","h","i","s","t","o","r","y">>, <<"e","m","p","l","o","y","m","e","n","t">>,
    <<"e","d","u","c","a","t","i","o","n">>, <<"a","c","a","d","e","m","i","c">>,
    <<"s","k","i","l","l","s">>, <<"t","e","c","h","n","i","c","a","l"," ","s","k","i","l","l","s">>, <<"c","o","m","p","e","t","e","n","c","i","e","s">>,
    <<"p","r","o","j","e","c","t","s">>, <<"c","e","r","t","i","f","i","c","a","t","i","o","n","s">>, <<"a","w","a","r","d","s">>>>

\* Array.prototype.indexOf, 0-based; -1 when absent
OrderIndex(section) ==
  IF section \in Range(IdealOrder)
    THEN (CHOOSE i \in 1..Len(IdealOrder) : IdealOrder[i] = section) - 1
    ELSE -1

\* the walk keeps the index of the last section that is in the ideal order
hasLogicalSectionOrder(sections) ==
  With(SelectSeq(sections, LAMBDA sec : OrderIndex(sec) # -1), LAMBDA known :
    \A i \in 1..(Len(known) - 1) : OrderIndex(known[i + 1]) >= OrderIndex(known[i]))

HasSection(sections, section) ==
  \E i \in 1..Len(sections) : Includes(sections[i], section)

StructureScoreOf(sections) ==
  Min((IF /\ HasSection(sections, <<"e","x","p","e","r","i","e","n","c","e">>)
          /\ HasSection(sections, <<"s","k","i","l","l","s">>)
          /\ HasSection(sections, <<"e","d","u","c","a","t","i","o","n">>)
         THEN 60 ELSE 0)
      + 10 * Cardinality({b \in {<<"s","u","m","m","a","r","y">>, <<"p","r","o","j","e","c","t","s">>, <<"c","e","r","t","i","f","i","c","a","t","i","o","n","s">>} :
                            HasSection(sections, b)})
      + (IF hasLogicalSectionOrder(sections) THEN 20 ELSE 0),
      100)

calculateStructureScore(resumeText) == StructureScoreOf(identifyResumeSections(resumeText))

findMatchedKeywords(resumeKeywords, jobKeywords) ==
  SelectSeq(jobKeywords,
            LAMBDA jobKw : \E r \in 1..Len(resumeKeywords) :
                              isKeywordMatch(resumeKeywords[r], jobKw))

HighImportanceKeywords ==
  <<<<"r","e","q","u","i","r","e","d">>, <<"m","u","s","t">>, <<"e","s","s","e","n","t","i","a","l">>, <<"m","a","n","d","a","t","o","r","y">>,
    <<"p","y","t","h","o","n">>, <<"j","a","v","a","s","c","r","i","p","t">>, <<"r","e","a","c","t">>, <<"a","w","s">>, <<"s","q","l">>>>

getKeywordImportance(keyword) ==
  IF \E i \in 1..Len(HighImportanceKeywords) :
        Includes(ToLowerCase(keyword), HighImportanceKeywords[i])
    THEN 10 ELSE 5

findMissingCriticalKeywords(resumeKeywords, jobKeywords) ==
  SelectSeq(jobKeywords,
            LAMBDA kw : /\ getKeywordImportance(kw) >= 8
                        /\ ~\E r \in 1..Len(resumeKeywords) :
                               isKeywordMatch(resumeKeywords[r], kw))

\* the weighted sum times one hundred
WeightedSum100(breakdown) ==
  IF IsNaN(breakdown.keywordMatch) THEN NaN
  ELSE 40 * breakdown.keywordMatch + 25 * breakdown.contentScore
       + 15 * breakdown.structureScore + 10 * breakdown.formatScore
       + 10 * breakdown.lengthScore

\* Math.floor in place of Math.round
calculateOverallScoreTruncated(breakdown) ==
  IF IsNaN(WeightedSum100(breakdown)) THEN NaN
  ELSE WeightedSum100(breakdown) \div 100
\* Math.round of the weighted sum: half rounds up
calculateOverallScore(breakdown) ==
  IF IsNaN(WeightedSum100(breakdown)) THEN NaN
  ELSE (WeightedSum100(breakdown) + 50) \div 100

calculateScoreBreakdown(resumeText, jobKeywords) ==
  With(extractKeywords(resumeText), LAMBDA resumeKeywords :
    [keywordMatch |-> calculateKeywordMatchScore(resumeText, jobKeywords),
     formatScore |-> calculateFormatScore(resumeText),
     contentScore |-> calculateContentScore(resumeText),
     lengthScore |-> calculateLengthScore(resumeText),
     structureScore |-> calculateStructureScore(resumeText),
     totalKeywords |-> Len(jobKeywords),
     matchedKeywords |-> Len(findMatchedKeywords(resumeKeywords, jobKeywords)),
     missingCriticalKeywords |-> findMissingCriticalKeywords(resumeKeywords, jobKeywords),
     formatIssues |-> identifyFormatIssues(resumeText),
     contentIssues |-> identifyContentIssues(resumeText)])

generateRecommendations(breakdown) ==
  LET all ==
        (IF NumLt(breakdown.keywordMatch, 70)
           THEN <<"Add more relevant keywords from the job description">>
                \o (IF Len(breakdown.missingCriticalKeywords) > 0
                      THEN <<"Include these critical keywords">> ELSE << >>)
           ELSE << >>)
        \o (IF breakdown.formatScore < 80
              THEN (IF "Missing standard sections" \in Range(breakdown.formatIssues)
                      THEN <<"Add standard resume sections: Experience, Education, Skills">>
                      ELSE << >>)
                   \o (IF "Inconsistent spacing" \in Range(breakdown.formatIssues)
                         THEN <<"Use consistent spacing and formatting throughout">>
                         ELSE << >>)
              ELSE << >>)
        \o (IF breakdown.contentScore < 80
              THEN (IF "Missing quantifiable achievements" \in Range(breakdown.contentIssues)
                      THEN <<"Add numbers, percentages, and metrics to quantify your achievements">>
                      ELSE << >>)
                   \o (IF "Weak action verbs" \in Range(breakdown.contentIssues)
                         THEN <<"Use strong action verbs">> ELSE << >>)
              ELSE << >>)
        \o (IF breakdown.structureScore < 80
              THEN <<"Organize sections in logical order: Summary, Experience, Education, Skills">>
              ELSE << >>)
        \o (IF breakdown.lengthScore < 80
              THEN (IF breakdown.totalKeywords < 400
                      THEN <<"Expand your resume with more detailed descriptions">>
                      ELSE IF breakdown.totalKeywords > 800
                        THEN <<"Condense your resume to focus on most relevant information">>
                        ELSE << >>)
              ELSE << >>)
  IN SubSeq(all, 1, Min(Len(all), 5))

PassThreshold == 70

passesATSAboveThreshold(overallScore) == NumGe(overallScore, PassThreshold + 1)
passesATS(overallScore) == NumGe(overallScore, PassThreshold)

\* the value thrown when a call does not return
Thrown(message) == [outcome |-> "threw", error |-> message]

\* the ATSScoreResult of a breakdown
ScoreResult(breakdown) ==
  [outcome |-> "returned",
   score |-> calculateOverallScore(breakdown),
   breakdown |-> breakdown,
   recommendations |-> generateRecommendations(breakdown),
   passesATS |-> passesATS(calculateOverallScore(breakdown))]

\* ATSScorer.calculateATSScore: an ATSScoreResult, or the SyntaxError of a
\* job keyword that is no regular expression
calculateATSScore(resumeText, jobKeywords) ==
  IF \E i \in 1..Len(jobKeywords) : KeywordRegexThrows(jobKeywords[i])
    THEN Thrown("SyntaxError: Invalid regular expression")
    ELSE ScoreResult(calculateScoreBreakdown(resumeText, jobKeywords))


(***************************************************************************)
(* keyword-analyzer.ts (AIWorkflowManager)                                 *)
(***************************************************************************)

\* the value of an optional argument that is not given
Undefined == << "undefined" >>

\* AIWorkflowManager.analyzeResume: any error is caught and replaced
analyzeResume(resumeText, targetRole) ==
  With(calculateATSScore(resumeText,
                         IF targetRole # Undefined /\ targetRole # << >>
                           THEN <<targetRole>> ELSE << >>),
       LAMBDA scored :
    IF scored.outcome = "threw" THEN Thrown("Failed to analyze resume") ELSE scored)

(***************************************************************************)
(* job-analyzer (JobPostingAnalyzer)                                       *)
(***************************************************************************)

\* the result of String.prototype.match without the g flag: null, or the
\* text of the first capture group
NoMatch == [found |-> FALSE]
Matched(group) == [found |-> TRUE, group |-> group]

\* the least member of a non-empty set of positions
Least(S) == CHOOSE p \in S : \A q \in S : p <= q
Greatest(S) == CHOOSE p \in S : \A q \in S : p >= q

\* the position after the longest run of characters of class from position p
RECURSIVE RunEnd(_, _, _)
RunEnd(text, class, p) ==
  IF p <= Len(text) /\ text[p] \in class THEN RunEnd(text, class, p + 1) ELSE p

\* replace(/\s+/g, ' '), then every character outside [\w\s.,!?()-] becomes
\* a space, then trim
cleanJobText(jobText) ==
  Trim(KeepOnly(CollapseWs(jobText),
                WordChars \cup SpaceChars \cup {".", ",", "!", "?", "(", ")", "-"}))

\* jobText.match(/label[:\s]+([^\n]+)/i) on a text of one line: the label,
\* a run of ':' and white space, and the rest of the text; a run that reaches
\* the end gives its last character back to the group
LabelSeparators == SpaceChars \cup {":"}

\* the position after the label at p and the separators that follow it
LabelEnd(jobText, label, p) == RunEnd(jobText, LabelSeparators, p + Len(label))

LabelAt(jobText, lower, label, p) ==
  /\ MatchesAt(lower, label, p)
  /\ p + Len(label) <= Len(jobText)
  /\ jobText[p + Len(label)] \in LabelSeparators
  /\ \/ LabelEnd(jobText, label, p) <= Len(jobText)
     \/ LabelEnd(jobText, label, p) - (p + Len(label)) >= 2

LabelGroup(jobText, e) ==
  IF e <= Len(jobText) THEN Matched(SubSeq(jobText, e, Len(jobText)))
  ELSE Matched(<<jobText[Len(jobText)]>>)

LabelCapture(jobText, label) ==
  With(ToLowerCase(jobText), LAMBDA lower :
    With({p \in 1..Len(jobText) : LabelAt(jobText, lower, label, p)}, LAMBDA hits :
      IF hits = {} THEN NoMatch
      ELSE LabelGroup(jobText, LabelEnd(jobText, label, Least(hits)))))

\* jobText.match(/^([^\n]{10,60})\s*$/m) on a text of one line
WholeLineCapture(jobText) ==
  With({n \in 10..Min(60, Len(jobText)) :
          \A q \in (n + 1)..Len(jobText) : jobText[q] \in SpaceChars},
       LAMBDA sizes :
    IF sizes = {} THEN NoMatch ELSE Matched(SubSeq(jobText, 1, Greatest(sizes))))

\* the first pattern, in order, whose match has a non-empty group
FirstCapture(matches) ==
  With({i \in 1..Len(matches) : matches[i].found /\ matches[i].group # << >>},
       LAMBDA hits :
    IF hits = {} THEN NoMatch ELSE matches[Least(hits)])

commonTitles ==
  <<<<"s","o","f","t","w","a","r","e"," ","e","n","g","i","n","e","e","r">>, <<"d","e","v","e","l","o","p","e","r">>, <<"p","r","o","g","r","a","m","m","e","r">>, <<"a","r","c","h","i","t","e","c","t">>,
    <<"m","a","n","a","g","e","r">>, <<"d","i","r","e","c","t","o","r">>, <<"a","n","a","l","y","s","t">>, <<"c","o","n","s","u","l","t","a","n","t">>, <<"s","p","e","c","i","a","l","i","s","t">>,
    <<"c","o","o","r","d","i","n","a","t","o","r">>, <<"a","d","m","i","n","i","s","t","r","a","t","o","r">>, <<"t","e","c","h","n","i","c","i","a","n">>, <<"d","e","s","i","g","n","e","r">>>>

TitleNotFound == <<"P","o","s","i","t","i","o","n"," ","T","i","t","l","e"," ","N","o","t"," ","F",
        "o","u","n","d">>
CompanyNotSpecified == <<"C","o","m","p","a","n","y"," ","N","o","t"," ","S","p","e","c","i","f","i","e",
        "d">>
LocationNotSpecified == <<"L","o","c","a","t","i","o","n"," ","N","o","t"," ","S","p","e","c","i","f","i",
        "e","d">>

extractJobTitle(jobText) ==
  With(FirstCapture(<<LabelCapture(jobText, <<"j","o","b"," ","t","i","t","l","e">>),
                      LabelCapture(jobText, <<"p","o","s","i","t","i","o","n">>),
                      LabelCapture(jobText, <<"r","o","l","e">>),
                      WholeLineCapture(jobText)>>),
       LAMBDA match :
    IF match.found THEN Trim(match.group)
    ELSE IF \E i \in 1..Len(commonTitles) :
              Includes(ToLowerCase(jobText), commonTitles[i])
      \* /([^\n]*title[^\n]*)/i takes the whole line
      THEN Trim(jobText)
      ELSE TitleNotFound)

\* jobText.match(/word\s+([A-Z][a-zA-Z\s&]{2,30})\s/): the word, white
\* space, a capital, the longest 2 to 30 letters, spaces and '&' that white
\* space follows; with the i flag the word and the capital match any case
Letters == Range(UpperLetters) \cup Range(LowerLetters)

\* where the name after the word at p starts
NameStart(jobText, word, p) == RunEnd(jobText, SpaceChars, p + Len(word))

\* the lengths the rest of a name that starts at start can have
NameSizes(jobText, start) ==
  {n \in 2..30 :
     /\ start + n + 1 <= Len(jobText)
     /\ \A q \in 1..n : jobText[start + q] \in Letters \cup SpaceChars \cup {"&"}
     /\ jobText[start + n + 1] \in SpaceChars}

NameAt(jobText, subject, word, first, p, start) ==
  /\ MatchesAt(subject, word, p)
  /\ start > p + Len(word)
  /\ start <= Len(jobText)
  /\ jobText[start] \in first
  /\ NameSizes(jobText, start) # {}

NameGroup(jobText, start) ==
  Matched(SubSeq(jobText, start, start + Greatest(NameSizes(jobText, start))))

NameAfterWord(jobText, word, ignoreCase) ==
  With(IF ignoreCase THEN ToLowerCase(jobText) ELSE jobText, LAMBDA subject :
    With({p \in 1..Len(jobText) :
            NameAt(jobText, subject, word,
                   IF ignoreCase THEN Letters ELSE Range(UpperLetters),
                   p, NameStart(jobText, word, p))},
         LAMBDA hits :
      IF hits = {} THEN NoMatch
      ELSE NameGroup(jobText, NameStart(jobText, word, Least(hits)))))

extractCompany(jobText) ==
  With(FirstCapture(<<LabelCapture(jobText, <<"c","o","m","p","a","n","y">>),
                      LabelCapture(jobText, <<"e","m","p","l","o","y","e","r">>),
                      LabelCapture(jobText, <<"o","r","g","a","n","i","z","a","t","i","o","n">>),
                      NameAfterWord(jobText, <<"a","t">>, FALSE),
                      NameAfterWord(jobText, <<"j","o","i","n">>, TRUE)>>),
       LAMBDA match :
    IF match.found THEN Trim(match.group) ELSE CompanyNotSpecified)

\* jobText.match(/(remote|hybrid|on-site)/i)
WorkModes == <<<<"r","e","m","o","t","e">>, <<"h","y","b","r","i","d">>, <<"o","n","-","s","i","t","e">>>>

WorkModesAt(lower, p) == {i \in 1..Len(WorkModes) : MatchesAt(lower, WorkModes[i], p)}

WorkModeGroup(jobText, p, mode) == Matched(SubSeq(jobText, p, p + Len(mode) - 1))

WorkModeCapture(jobText) ==
  With(ToLowerCase(jobText), LAMBDA lower :
    With({p \in 1..Len(jobText) : WorkModesAt(lower, p) # {}}, LAMBDA hits :
      IF hits = {} THEN NoMatch
      ELSE WorkModeGroup(jobText, Least(hits),
                         WorkModes[Least(WorkModesAt(lower, Least(hits)))])))

\* jobText.match(/([A-Z][a-z]+,\s*[A-Z]{2})/) when stateCode, and
\* jobText.match(/([A-Z][a-z]+,\s*[A-Z][a-z]+)/) otherwise:
\* where the comma after the city name at p must be, and where the word after
\* the comma starts
PlaceComma(jobText, p) == RunEnd(jobText, Range(LowerLetters), p + 1)
PlaceSecond(jobText, p) == RunEnd(jobText, SpaceChars, PlaceComma(jobText, p) + 1)

PlaceAt(jobText, stateCode, p, comma, second) ==
  /\ jobText[p] \in Range(UpperLetters)
  /\ comma > p + 1
  /\ comma <= Len(jobText)
  /\ jobText[comma] = ","
  /\ second + 1 <= Len(jobText)
  /\ jobText[second] \in Range(UpperLetters)
  /\ jobText[second + 1] \in (IF stateCode THEN Range(UpperLetters)
                                ELSE Range(LowerLetters))

PlaceGroup(jobText, stateCode, p, second) ==
  Matched(SubSeq(jobText, p,
                 IF stateCode THEN second + 1
                 ELSE RunEnd(jobText, Range(LowerLetters), second + 1) - 1))

PlaceCapture(jobText, stateCode) ==
  With({p \in 1..Len(jobText) :
          PlaceAt(jobText, stateCode, p, PlaceComma(jobText, p), PlaceSecond(jobText, p))},
       LAMBDA hits :
    IF hits = {} THEN NoMatch
    ELSE PlaceGroup(jobText, stateCode, Least(hits), PlaceSecond(jobText, Least(hits))))

extractLocation(jobText) ==
  With(FirstCapture(<<LabelCapture(jobText, <<"l","o","c","a","t","i","o","n">>),
                      LabelCapture(jobText, <<"b","a","s","e","d"," ","i","n">>),
                      LabelCapture(jobText, <<"o","f","f","i","c","e">>),
                      WorkModeCapture(jobText),
                      PlaceCapture(jobText, TRUE),
                      PlaceCapture(jobText, FALSE)>>),
       LAMBDA match :
    IF match.found THEN Trim(match.group) ELSE LocationNotSpecified)

technicalSkills ==
  <<<<"p","y","t","h","o","n">>, <<"j","a","v","a","s","c","r","i","p","t">>, <<"j","a","v","a">>, <<"c","+","+">>, <<"r","e","a","c","t">>, <<"a","n","g","u","l","a","r">>, <<"v","u","e">>,
    <<"n","o","d","e",".","j","s">>, <<"d","j","a","n","g","o">>, <<"f","l","a","s","k">>, <<"s","p","r","i","n","g">>, <<"s","q","l">>, <<"m","o","n","g","o","d","b">>, <<"p","o","s","t","g","r","e","s","q","l">>,
    <<"a","w","s">>, <<"a","z","u","r","e">>, <<"g","o","o","g","l","e"," ","c","l","o","u","d">>, <<"d","o","c","k","e","r">>, <<"k","u","b","e","r","n","e","t","e","s">>, <<"g","i","t">>,
    <<"j","e","n","k","i","n","s">>, <<"t","e","r","r","a","f","o","r","m">>, <<"a","n","s","i","b","l","e">>, <<"r","e","d","i","s">>, <<"e","l","a","s","t","i","c","s","e","a","r","c","h">>>>

\* extractSkills builds new RegExp(`\\b${skill}\\b`, 'gi') for every entry of
\* technicalSkills, whatever the text: the call throws when one of the
\* patterns is no regular expression
extractSkillsThrows(jobText) ==
  \E i \in 1..Len(technicalSkills) : RegexSyntaxError(technicalSkills[i])

jobStopWords ==
  <<<<"t","h","e">>, <<"a">>, <<"a","n">>, <<"a","n","d">>, <<"o","r">>, <<"b","u","t">>, <<"i","n">>, <<"o","n">>, <<"a","t">>, <<"t","o">>, <<"f","o","r">>,
    <<"o","f">>, <<"w","i","t","h">>, <<"b","y">>, <<"i","s">>, <<"a","r","e">>, <<"w","a","s">>, <<"w","e","r","e">>, <<"b","e">>, <<"b","e","e","n">>, <<"b","e","i","n","g">>,
    <<"h","a","v","e">>, <<"h","a","s">>, <<"h","a","d">>, <<"d","o">>, <<"d","o","e","s">>, <<"d","i","d">>, <<"w","i","l","l">>, <<"w","o","u","l","d">>, <<"c","o","u","l","d">>,
    <<"s","h","o","u","l","d">>, <<"m","a","y">>, <<"m","i","g","h","t">>, <<"m","u","s","t">>, <<"c","a","n">>, <<"t","h","i","s">>, <<"t","h","a","t">>, <<"t","h","e","s","e">>, <<"t","h","o","s","e">>>>

\* the number of elements of seq equal to e
Occurrences(seq, e) == Cardinality({i \in 1..Len(seq) : seq[i] = e})

\* a stable sort of distinct words by falling frequency in all
RECURSIVE SortByFrequency(_, _)
SortByFrequency(distinct, all) ==
  IF Len(distinct) = 0 THEN << >>
  ELSE With(Greatest({Occurrences(all, distinct[i]) : i \in 1..Len(distinct)}),
            LAMBDA top :
         SelectSeq(distinct, LAMBDA w : Occurrences(all, w) = top)
         \o SortByFrequency(SelectSeq(distinct, LAMBDA w : Occurrences(all, w) # top), all))

\* JobPostingAnalyzer.extractJobKeywords: the 50 most frequent words
MostFrequent(words, limit) ==
  With(SortByFrequency(Dedupe(words), words), LAMBDA ranked :
    SubSeq(ranked, 1, Min(limit, Len(ranked))))

extractJobKeywords(jobText) ==
  MostFrequent(SelectSeq(SplitWs(KeepOnly(ToLowerCase(jobText), WordChars \cup SpaceChars)),
                         LAMBDA word : /\ Len(word) > 2
                                       /\ \A i \in 1..Len(jobStopWords) :
                                            jobStopWords[i] # word),
               50)

\* the one character U+2022 that opens a bullet line
Bullet == "U+2022"

requirementHeaders ==
  <<<<"r","e","q","u","i","r","e","m","e","n","t","s">>, <<"q","u","a","l","i","f","i","c","a","t","i","o","n","s">>, <<"m","u","s","t"," ","h","a","v","e">>, <<"r","e","q","u","i","r","e","d">>,
    <<"p","r","e","f","e","r","r","e","d">>, <<"n","i","c","e"," ","t","o"," ","h","a","v","e">>, <<"i","d","e","a","l"," ","c","a","n","d","i","d","a","t","e">>, <<"y","o","u"," ","s","h","o","u","l","d"," ","h","a","v","e">>>>

\* sections with currentSection pushed unless it is blank
PushedSection(sections, currentSection) ==
  IF Trim(currentSection) # << >> THEN Append(sections, currentSection) ELSE sections

\* the forEach of findRequirementsSections from line n on, and the push after it
RECURSIVE RequirementsSectionsFrom(_, _, _, _, _)
RequirementsSectionsFrom(lines, n, sections, currentSection, inRequirementsSection) ==
  IF n > Len(lines) THEN PushedSection(sections, currentSection)
  ELSE With(Trim(ToLowerCase(lines[n])), LAMBDA lowerLine :
    IF /\ Len(lines[n]) < 100
       /\ \E h \in 1..Len(requirementHeaders) : Includes(lowerLine, requirementHeaders[h])
      THEN With(PushedSection(sections, currentSection), LAMBDA pushed :
             RequirementsSectionsFrom(lines, n + 1, pushed, lines[n] \o <<"\n">>, TRUE))
    ELSE IF ~inRequirementsSection
      THEN RequirementsSectionsFrom(lines, n + 1, sections, currentSection, FALSE)
    ELSE IF \/ Includes(lowerLine, <<"r","e","s","p","o","n","s","i","b","i","l","i","t","i","e","s">>)
            \/ Includes(lowerLine, <<"a","b","o","u","t"," ","u","s">>)
            \/ Includes(lowerLine, <<"b","e","n","e","f","i","t","s">>)
      THEN With(PushedSection(sections, currentSection), LAMBDA pushed :
             RequirementsSectionsFrom(lines, n + 1, pushed, << >>, FALSE))
    ELSE With(currentSection \o lines[n] \o <<"\n">>, LAMBDA extended :
           RequirementsSectionsFrom(lines, n + 1, sections, extended, TRUE)))

findRequirementsSections(jobText) ==
  RequirementsSectionsFrom(SplitChar(jobText, "\n"), 1, << >>, << >>, FALSE)

categorizeRequirement(requirement) ==
  With(ToLowerCase(requirement), LAMBDA reqLower :
    IF \E w \in {<<"p","r","o","g","r","a","m","m","i","n","g">>, <<"s","o","f","t","w","a","r","e">>, <<"c","o","d","i","n","g">>, <<"d","e","v","e","l","o","p","m","e","n","t">>, <<"p","y","t","h","o","n">>,
                 <<"j","a","v","a","s","c","r","i","p","t">>, <<"d","a","t","a","b","a","s","e">>, <<"a","p","i">>} : Includes(reqLower, w)
      THEN "technical"
    ELSE IF \E w \in {<<"d","e","g","r","e","e">>, <<"b","a","c","h","e","l","o","r">>, <<"m","a","s","t","e","r">>, <<"p","h","d">>, <<"e","d","u","c","a","t","i","o","n">>,
                      <<"u","n","i","v","e","r","s","i","t","y">>} : Includes(reqLower, w)
      THEN "education"
    ELSE IF \E w \in {<<"y","e","a","r","s">>, <<"e","x","p","e","r","i","e","n","c","e">>, <<"b","a","c","k","g","r","o","u","n","d">>, <<"w","o","r","k","e","d">>} :
              Includes(reqLower, w)
      THEN "experience"
    ELSE IF \E w \in {<<"c","e","r","t","i","f","i","e","d">>, <<"c","e","r","t","i","f","i","c","a","t","i","o","n">>, <<"l","i","c","e","n","s","e">>, <<"a","w","s">>,
                      <<"g","o","o","g","l","e"," ","c","l","o","u","d">>, <<"a","z","u","r","e">>} : Includes(reqLower, w)
      THEN "certification"
    ELSE "soft-skill")

\* the priority of a section: the later test overrides the earlier one
sectionPriority(sectionText) ==
  With(ToLowerCase(sectionText), LAMBDA sectionLower :
    IF Includes(sectionLower, <<"b","o","n","u","s">>) \/ Includes(sectionLower, <<"p","l","u","s">>)
      THEN "nice-to-have"
    ELSE IF Includes(sectionLower, <<"p","r","e","f","e","r","r","e","d">>) \/ Includes(sectionLower, <<"n","i","c","e"," ","t","o"," ","h","a","v","e">>)
      THEN "preferred"
    ELSE "required")

\* trimmedLine.match(/^[•\-\*\d]/)
ItemMarks == {Bullet, "-", "*"} \cup Digits

\* trimmedLine.replace(/^[•\-\*\d\.)\s]+/, '').trim()
requirementText(trimmedLine) ==
  With(RunEnd(trimmedLine, ItemMarks \cup {".", ")"} \cup SpaceChars, 1), LAMBDA e :
    Trim(SubSeq(trimmedLine, e, Len(trimmedLine))))

\* the requirements one line of a section gives: none or one
lineRequirements(line, priority) ==
  With(Trim(line), LAMBDA trimmedLine :
    IF Len(trimmedLine) < 10 \/ trimmedLine[1] \notin ItemMarks THEN << >>
    ELSE With(requirementText(trimmedLine), LAMBDA requirement :
      IF Len(requirement) > 5
        THEN <<[requirement |-> requirement, priority |-> priority,
                category |-> categorizeRequirement(requirement)]>>
        ELSE << >>))

RECURSIVE LinesRequirements(_, _)
LinesRequirements(lines, priority) ==
  IF Len(lines) = 0 THEN << >>
  ELSE lineRequirements(Head(lines), priority) \o LinesRequirements(Tail(lines), priority)

parseRequirementsFromSection(sectionText) ==
  LinesRequirements(SplitChar(sectionText, "\n"), sectionPriority(sectionText))

RECURSIVE SectionsRequirements(_)
SectionsRequirements(sections) ==
  IF Len(sections) = 0 THEN << >>
  ELSE parseRequirementsFromSection(Head(sections))
       \o SectionsRequirements(Tail(sections))

extractRequirements(jobText) == SectionsRequirements(findRequirementsSections(jobText))

\* parseInt of a text of decimal digits
DigitValue(c) ==
  CASE c = "0" -> 0 [] c = "1" -> 1 [] c = "2" -> 2 [] c = "3" -> 3 [] c = "4" -> 4
    [] c = "5" -> 5 [] c = "6" -> 6 [] c = "7" -> 7 [] c = "8" -> 8 [] c = "9" -> 9

RECURSIVE parseInt(_)
parseInt(digits) ==
  IF Len(digits) = 0 THEN 0
  ELSE parseInt(SubSeq(digits, 1, Len(digits) - 1)) * 10 + DigitValue(digits[Len(digits)])

\* the position after the longest run of groups ,\d{3} from position p
RECURSIVE GroupsEnd(_, _)
GroupsEnd(text, p) ==
  IF /\ p + 3 <= Len(text)
     /\ text[p] = ","
     /\ \A i \in (p + 1)..(p + 3) : text[i] \in Digits
    THEN GroupsEnd(text, p + 4)
    ELSE p

\* the position after the longest text \d{1,3}(?:,\d{3})* at position p, or
\* p where no digit stands.  What follows the number in the salary patterns
\* is no digit and no comma, so that no shorter number gives a match.
NumberEnd(text, p) ==
  With(Min(RunEnd(text, Digits, p), p + 3), LAMBDA e :
    IF e = p THEN p ELSE GroupsEnd(text, e))

\* the position after \$(\d{1,3}(?:,\d{3})*) at position p, or at most p + 1
AmountEnd(text, p) ==
  IF p <= Len(text) /\ text[p] = "$" THEN NumberEnd(text, p + 1) ELSE p

\* the position after \s*-\s* at position e, or 0
DashEnd(text, e) ==
  With(RunEnd(text, SpaceChars, e), LAMBDA q :
    IF q <= Len(text) /\ text[q] = "-" THEN RunEnd(text, SpaceChars, q + 1) ELSE 0)

\* \s*(tail|tail|...) at position e of the lower-cased text (flag i)
SalaryTail(lower, e, tails) ==
  \E i \in 1..Len(tails) : MatchesAt(lower, tails[i], RunEnd(lower, SpaceChars, e))

\* /\$(\d{1,3}(?:,\d{3})*)\s*-\s*\$(\d{1,3}(?:,\d{3})*)\s*(tails)/i at position p
DollarRangeAt(text, lower, p, tails) ==
  With(AmountEnd(text, p), LAMBDA e1 :
    IF e1 <= p + 1 THEN NoMatch
    ELSE With(DashEnd(text, e1), LAMBDA s :
      IF s = 0 THEN NoMatch
      ELSE With(AmountEnd(text, s), LAMBDA e2 :
        IF e2 > s + 1 /\ SalaryTail(lower, e2, tails)
          THEN [found |-> TRUE, min |-> SubSeq(text, p + 1, e1 - 1),
                max |-> SubSeq(text, s + 1, e2 - 1)]
          ELSE NoMatch)))

\* the position after (\d{1,3})k at position p, or p
ThousandsEnd(lower, p) ==
  With(RunEnd(lower, Digits, p), LAMBDA e :
    IF e > p /\ e <= p + 3 /\ e <= Len(lower) /\ lower[e] = "k" THEN e + 1 ELSE p)

\* /(\d{1,3})k\s*-\s*(\d{1,3})k/i at position p
ThousandsRangeAt(lower, p) ==
  With(ThousandsEnd(lower, p), LAMBDA e1 :
    IF e1 = p THEN NoMatch
    ELSE With(DashEnd(lower, e1), LAMBDA s :
      IF s = 0 THEN NoMatch
      ELSE With(ThousandsEnd(lower, s), LAMBDA e2 :
        IF e2 = s THEN NoMatch
        ELSE [found |-> TRUE, min |-> SubSeq(lower, p, e1 - 2),
              max |-> SubSeq(lower, s, e2 - 2)])))

\* jobText.match(pattern) for the first two salary patterns: the leftmost match
DollarRangeMatch(jobText, tails) ==
  With(ToLowerCase(jobText), LAMBDA lower :
    With({p \in 1..Len(jobText) : DollarRangeAt(jobText, lower, p, tails).found},
         LAMBDA starts :
      IF starts = {} THEN NoMatch
      ELSE DollarRangeAt(jobText, lower, Least(starts), tails)))

\* jobText.match(pattern) for the third salary pattern
ThousandsRangeMatch(jobText) ==
  With(ToLowerCase(jobText), LAMBDA lower :
    With({p \in 1..Len(jobText) : ThousandsRangeAt(lower, p).found}, LAMBDA starts :
      IF starts = {} THEN NoMatch ELSE ThousandsRangeAt(lower, Least(starts))))

\* parseInt(match[n].replace(/,/g, '')), times 1000 where the source of the
\* pattern holds the letter k
SalaryRange(match, scale) ==
  [min |-> parseInt(SelectSeq(match.min, LAMBDA c : c # ",")) * scale,
   max |-> parseInt(SelectSeq(match.max, LAMBDA c : c # ",")) * scale,
   currency |-> "USD", period |-> "yearly"]

\* the first of the three patterns that matches decides; none gives undefined
extractSalaryRange(jobText) ==
  With(DollarRangeMatch(jobText, <<<<"p","e","r"," ","y","e","a","r">>, <<"a","n","n","u","a","l","l","y">>, <<"y","e","a","r","l","y">>>>), LAMBDA first :
    IF first.found THEN SalaryRange(first, 1)
    ELSE With(DollarRangeMatch(jobText, <<<<"k">>>>), LAMBDA second :
      IF second.found THEN SalaryRange(second, 1000)
      ELSE With(ThousandsRangeMatch(jobText), LAMBDA third :
        IF third.found THEN SalaryRange(third, 1000) ELSE Undefined)))

\* of the result, the fields of the text extractors; skills is computed
\* after jobTitle, company, location and requirements
analyzeJobPosting(jobText) ==
  With(cleanJobText(jobText), LAMBDA cleanText :
    IF extractSkillsThrows(cleanText)
      THEN Thrown("SyntaxError")
      ELSE [outcome |-> "returned",
            jobTitle |-> extractJobTitle(cleanText),
            company |-> extractCompany(cleanText),
            location |-> extractLocation(cleanText),
            requirements |-> extractRequirements(cleanText),
            keywords |-> extractJobKeywords(cleanText),
            salary |-> extractSalaryRange(cleanText),
            description |-> cleanText])

(***************************************************************************)
(* workflows.ts (ResumeTagiloringEngine)                                   *)
(***************************************************************************)

\* the first element of seq that satisfies Test, as a one-element or empty
\* sequence (Array.prototype.find)
Find(seq, Test(_)) ==
  With({i \in 1..Len(seq) : Test(seq[i])}, LAMBDA hits :
    IF hits = {} THEN << >> ELSE <<seq[Least(hits)]>>)

\* new RegExp(escaped keyword, 'gi'): the occurrences, any letter case
countKeywordFrequency(text, keyword) ==
  LiteralCountFrom(ToLowerCase(keyword), ToLowerCase(text), 1)

IncludesAnyOf(lowerKeyword, patterns) ==
  \E i \in 1..Len(patterns) : Includes(lowerKeyword, patterns[i])

highPriorityPatterns ==
  <<<<"r","e","q","u","i","r","e","d">>, <<"m","u","s","t"," ","h","a","v","e">>, <<"e","s","s","e","n","t","i","a","l">>, <<"c","r","i","t","i","c","a","l">>, <<"m","a","n","d","a","t","o","r","y">>,
    <<"p","y","t","h","o","n">>, <<"j","a","v","a","s","c","r","i","p","t">>, <<"r","e","a","c","t">>, <<"a","w","s">>, <<"s","q","l">>, <<"d","o","c","k","e","r">>>>

mediumPriorityPatterns ==
  <<<<"p","r","e","f","e","r","r","e","d">>, <<"d","e","s","i","r","e","d">>, <<"n","i","c","e"," ","t","o"," ","h","a","v","e">>, <<"b","o","n","u","s">>,
    <<"g","i","t">>, <<"a","g","i","l","e">>, <<"s","c","r","u","m">>, <<"t","e","s","t","i","n","g">>>>

determineKeywordImportance(keyword) ==
  With(ToLowerCase(keyword), LAMBDA lowerKeyword :
    IF IncludesAnyOf(lowerKeyword, highPriorityPatterns) THEN "high"
    ELSE IF IncludesAnyOf(lowerKeyword, mediumPriorityPatterns) THEN "medium"
    ELSE "low")

isTechnicalKeyword(keyword) ==
  IncludesAnyOf(ToLowerCase(keyword),
    <<<<"p","y","t","h","o","n">>, <<"j","a","v","a","s","c","r","i","p","t">>, <<"r","e","a","c","t">>, <<"n","o","d","e">>, <<"s","q","l">>, <<"a","w","s">>, <<"d","o","c","k","e","r">>,
      <<"k","u","b","e","r","n","e","t","e","s">>, <<"g","i","t">>, <<"a","p","i">>, <<"d","a","t","a","b","a","s","e">>, <<"c","l","o","u","d">>, <<"d","e","v","o","p","s">>>>)

isActionKeyword(keyword) ==
  IncludesAnyOf(ToLowerCase(keyword),
    <<<<"d","e","v","e","l","o","p","e","d">>, <<"i","m","p","l","e","m","e","n","t","e","d">>, <<"m","a","n","a","g","e","d">>, <<"l","e","d">>, <<"c","r","e","a","t","e","d">>,
      <<"d","e","s","i","g","n","e","d">>, <<"o","p","t","i","m","i","z","e","d">>, <<"i","m","p","r","o","v","e","d">>, <<"c","o","l","l","a","b","o","r","a","t","e","d">>>>)

\* the KeywordMatch of every job keyword (suggestedPlacements, which nothing
\* of the tailoring reads, is left out)
KeywordMatchOf(keyword, resumeKeywords, resumeText) ==
  [keyword |-> keyword,
   inResume |-> \E r \in 1..Len(resumeKeywords) :
                  \/ Includes(ToLowerCase(resumeKeywords[r]), ToLowerCase(keyword))
                  \/ Includes(ToLowerCase(keyword), ToLowerCase(resumeKeywords[r])),
   frequency |-> countKeywordFrequency(resumeText, keyword),
   importance |-> determineKeywordImportance(keyword)]

analyzeKeywordMatches(jobKeywords, resumeKeywords, resumeText) ==
  [i \in 1..Len(jobKeywords) |-> KeywordMatchOf(jobKeywords[i], resumeKeywords, resumeText)]

sectionHeaders ==
  <<<<"s","u","m","m","a","r","y">>, <<"o","b","j","e","c","t","i","v","e">>, <<"e","x","p","e","r","i","e","n","c","e">>, <<"w","o","r","k"," ","e","x","p","e","r","i","e","n","c","e">>, <<"e","m","p","l","o","y","m","e","n","t">>,
    <<"s","k","i","l","l","s">>, <<"t","e","c","h","n","i","c","a","l"," ","s","k","i","l","l","s">>, <<"e","d","u","c","a","t","i","o","n">>, <<"p","r","o","j","e","c","t","s">>, <<"a","c","h","i","e","v","e","m","e","n","t","s">>,
    <<"c","e","r","t","i","f","i","c","a","t","i","o","n","s">>, <<"a","w","a","r","d","s">>>>

\* the header a line holds, as a one-element or empty sequence
HeaderOf(line, lowercaseLine) ==
  Find(sectionHeaders, LAMBDA header : Includes(lowercaseLine, header) /\ Len(line) < 50)

\* the sections once currentSection is closed
Pushed(sections, currentSection) ==
  IF Trim(currentSection.content) # << >> THEN Append(sections, currentSection)
  ELSE sections

\* one round of the loop over the lines
SectionsWithLine(before, line, foundHeader) ==
  IF foundHeader # << >>
    THEN [sections |-> Pushed(before.sections, before.currentSection),
          currentSection |-> [name |-> foundHeader[1], content |-> line \o <<"\n">>]]
    ELSE [sections |-> before.sections,
          currentSection |->
            [name |-> before.currentSection.name,
             content |-> before.currentSection.content \o line \o <<"\n">>]]

\* the sections pushed and the section being filled after the first n lines
RECURSIVE SectionsAfter(_, _)
SectionsAfter(lines, n) ==
  IF n = 0 THEN [sections |-> << >>,
                 currentSection |-> [name |-> <<"h","e","a","d","e","r">>, content |-> << >>]]
  ELSE SectionsWithLine(SectionsAfter(lines, n - 1), lines[n],
                        HeaderOf(lines[n], Trim(ToLowerCase(lines[n]))))

parseResumeIntoSections(resumeText) ==
  With(SplitChar(resumeText, "\n"), LAMBDA lines :
    With(SectionsAfter(lines, Len(lines)), LAMBDA end :
      Pushed(end.sections, end.currentSection)))

\* a one-element sequence holding the section, or none when there is no
\* section at all
OrFirst(found, sections) ==
  IF found # << >> \/ Len(sections) = 0 THEN found ELSE <<sections[1]>>

findBestSectionForKeyword(keyword, sections) ==
  IF isTechnicalKeyword(keyword)
    THEN OrFirst(Find(sections, LAMBDA s : Includes(s.name, <<"s","k","i","l","l">>)), sections)
  ELSE IF isActionKeyword(keyword)
    THEN OrFirst(Find(sections, LAMBDA s : \/ Includes(s.name, <<"e","x","p","e","r","i","e","n","c","e">>)
                                            \/ Includes(s.name, <<"e","m","p","l","o","y","m","e","n","t">>)),
                 sections)
  ELSE OrFirst(Find(sections, LAMBDA s : s.name # <<"h","e","a","d","e","r">>), sections)

enhanceLineWithKeyword(line, keyword) ==
  IF Includes(line, <<"e","x","p","e","r","i","e","n","c","e">>) \/ Includes(line, <<"w","o","r","k","e","d">>)
    THEN ReplaceFirst(line, <<"e","x","p","e","r","i","e","n","c","e">>, <<"e","x","p","e","r","i","e","n","c","e"," ","w","i","t","h"," ">> \o keyword)
  ELSE IF StartsWith(line, <<Bullet>>) \/ StartsWith(line, <<"-">>)
    THEN line \o <<" ","u","t","i","l","i","z","i","n","g"," ">> \o keyword
  ELSE line \o <<" ","(">> \o keyword \o <<")">>

\* a trimmed line the keyword can be worked into
OpenLine(line, keyword) ==
  /\ \/ StartsWith(line, <<Bullet>>)
     \/ StartsWith(line, <<"-">>)
     \/ Includes(line, <<"e","x","p","e","r","i","e","n","c","e">>)
  /\ ~Includes(ToLowerCase(line), ToLowerCase(keyword))

incorporateKeyword(sectionContent, keyword) ==
  With(SplitChar(sectionContent, "\n"), LAMBDA lines :
    With({i \in 1..Len(lines) : OpenLine(Trim(lines[i]), keyword)}, LAMBDA hits :
      IF hits = {} THEN sectionContent
      ELSE JoinWith([i \in 1..Len(lines) |->
                       IF i = Least(hits)
                         THEN enhanceLineWithKeyword(Trim(lines[i]), keyword)
                         ELSE lines[i]],
                    <<"\n">>)))

RECURSIVE IncorporateAll(_, _)
IncorporateAll(content, keywordMatches) ==
  IF Len(keywordMatches) = 0 THEN content
  ELSE With(incorporateKeyword(content, Head(keywordMatches).keyword),
            LAMBDA enhancedContent : IncorporateAll(enhancedContent, Tail(keywordMatches)))

MissingKeywordSuggestion(bestSection, keyword) ==
  [section |-> bestSection.name,
   original |-> bestSection.content,
   suggested |-> incorporateKeyword(bestSection.content, keyword),
   reason |-> "Add high-priority keyword",
   impact |-> 15]

MissingKeywordSuggestions(resumeSections, keywordMatches) ==
  With(SelectSeq(keywordMatches, LAMBDA km :
         /\ ~km.inResume /\ km.importance = "high"
         /\ findBestSectionForKeyword(km.keyword, resumeSections) # << >>),
       LAMBDA placed :
    [i \in 1..Len(placed) |->
       MissingKeywordSuggestion(
         findBestSectionForKeyword(placed[i].keyword, resumeSections)[1],
         placed[i].keyword)])

sectionKeywordCount(section, keywordMatches) ==
  Cardinality({i \in 1..Len(keywordMatches) :
                 Includes(ToLowerCase(section.content),
                          ToLowerCase(keywordMatches[i].keyword))})

StrengthenSuggestion(section, relevantKeywords) ==
  [section |-> section.name,
   original |-> section.content,
   suggested |-> IncorporateAll(section.content, relevantKeywords),
   reason |-> "Strengthen section",
   impact |-> 10]

StrengthenWith(sections, keywordMatches, relevantKeywords) ==
  With(SelectSeq(sections, LAMBDA section :
         /\ sectionKeywordCount(section, keywordMatches) < 2
         /\ section.name # <<"h","e","a","d","e","r">>
         /\ Len(relevantKeywords) > 0),
       LAMBDA weak :
    [i \in 1..Len(weak) |-> StrengthenSuggestion(weak[i], relevantKeywords)])

FirstTwo(seq) == SubSeq(seq, 1, Min(2, Len(seq)))

strengthenWeakSections(sections, keywordMatches) ==
  StrengthenWith(sections, keywordMatches,
                 FirstTwo(SelectSeq(keywordMatches,
                                    LAMBDA km : ~km.inResume /\ km.importance # "low")))

\* the advice of a density suggestion, the keyword in double quotes
Advice(lead, keyword) == lead \o <<"\"">> \o keyword \o <<"\"">>

\* calculateKeywordDensity compared with a percentage given in halves
DensityAbove(text, keyword, halves) ==
  With(calculateKeywordDensityOver(text, keyword), LAMBDA d :
    200 * d.count > halves * d.words)
DensityBelow(text, keyword, halves) ==
  With(calculateKeywordDensityOver(text, keyword), LAMBDA d :
    200 * d.count < halves * d.words)

Stuffed(text, km) ==
  km.inResume /\ km.frequency > 0 /\ DensityAbove(text, km.keyword, 6)

Starved(text, km) ==
  /\ km.inResume /\ km.frequency > 0
  /\ ~DensityAbove(text, km.keyword, 6)
  /\ DensityBelow(text, km.keyword, 1)
  /\ km.importance = "high"

DensitySuggestion(text, km) ==
  IF Stuffed(text, km)
    THEN [section |-> <<"o","v","e","r","a","l","l">>,
          original |-> km.keyword,
          suggested |-> Advice(<<"R","e","d","u","c","e"," ","r","e","p","e","t","i","t","i","o","n"," ","o","f",
        " ">>, km.keyword),
          reason |-> "Avoid keyword stuffing",
          impact |-> -5]
    ELSE [section |-> <<"o","v","e","r","a","l","l">>,
          original |-> km.keyword,
          suggested |-> Advice(<<"I","n","c","r","e","a","s","e"," ","u","s","a","g","e"," ","o","f"," ">>, km.keyword),
          reason |-> "Important keyword needs more presence",
          impact |-> 8]

DensitySuggestions(text, keywordMatches) ==
  With(SelectSeq(keywordMatches, LAMBDA km : Stuffed(text, km) \/ Starved(text, km)),
       LAMBDA touched :
    [i \in 1..Len(touched) |-> DensitySuggestion(text, touched[i])])

optimizeKeywordDensity(sections, keywordMatches) ==
  DensitySuggestions(JoinWith([i \in 1..Len(sections) |-> sections[i].content], <<" ">>),
                     keywordMatches)

\* Array.prototype.sort((a, b) => b.impact - a.impact): stable, so equal
\* impacts keep their order
RECURSIVE SortByImpact(_)
SortByImpact(suggestions) ==
  IF Len(suggestions) = 0 THEN << >>
  ELSE With(Greatest({suggestions[i].impact : i \in 1..Len(suggestions)}), LAMBDA top :
         SelectSeq(suggestions, LAMBDA s : s.impact = top)
         \o SortByImpact(SelectSeq(suggestions, LAMBDA s : s.impact # top)))

generateTailoringSuggestions(resumeText, keywordMatches) ==
  With(parseResumeIntoSections(resumeText), LAMBDA resumeSections :
    SortByImpact(MissingKeywordSuggestions(resumeSections, keywordMatches)
                 \o strengthenWeakSections(resumeSections, keywordMatches)
                 \o optimizeKeywordDensity(resumeSections, keywordMatches)))

\* a pass that replaces the first two occurrences of the original text
ApplySuggestionTwice(tailoredResume, suggestion) ==
  IF Includes(tailoredResume, suggestion.original)
    THEN ReplaceFirst(ReplaceFirst(tailoredResume, suggestion.original,
                                   suggestion.suggested),
                      suggestion.original, suggestion.suggested)
    ELSE tailoredResume

\* one pass of the forEach of applyTailoringChanges
ApplySuggestion(tailoredResume, suggestion) ==
  IF Includes(tailoredResume, suggestion.original)
    THEN ReplaceFirst(tailoredResume, suggestion.original, suggestion.suggested)
    ELSE tailoredResume

RECURSIVE applyTailoringChanges(_, _)
applyTailoringChanges(resumeText, suggestions) ==
  IF Len(suggestions) = 0 THEN resumeText
  ELSE With(ApplySuggestion(resumeText, Head(suggestions)), LAMBDA tailoredResume :
         applyTailoringChanges(tailoredResume, Tail(suggestions)))

\* one line of the improvements when count is positive
Improvement(improvement, count) ==
  IF count > 0 THEN <<[improvement |-> improvement, count |-> count]>> ELSE << >>

generateImprovements(keywordMatches, suggestions) ==
  Improvement("missing keywords",
              Len(SelectSeq(keywordMatches, LAMBDA km : ~km.inResume)))
  \o Improvement("high-impact changes",
                  Len(SelectSeq(suggestions, LAMBDA s : s.impact > 10)))
  \o Improvement("strengthen sections",
                  Len(SelectSeq(suggestions, LAMBDA s : s.reason = "Strengthen section")))

\* the exported calculateATSScore of ats-scorer.ts: the score alone.  The
\* keywords tailorResume passes come from extractKeywords, which leaves
\* nothing a regular expression rejects.
scoreOnly(resumeText, jobKeywords) == calculateATSScore(resumeText, jobKeywords).score

TailoringResults(resumeText, jobKeywords, keywordMatches, suggestions, tailoredResume) ==
  [outcome |-> "returned",
   tailoredResume |-> tailoredResume,
   atsScore |-> scoreOnly(tailoredResume, jobKeywords),
   keywordMatches |-> keywordMatches,
   suggestions |-> suggestions,
   improvements |-> generateImprovements(keywordMatches, suggestions),
   originalScore |-> scoreOnly(resumeText, jobKeywords)]

tailorResume(resumeText, jobDescription) ==
  With(extractKeywords(jobDescription), LAMBDA jobKeywords :
    With(analyzeKeywordMatches(jobKeywords, extractKeywords(resumeText), resumeText),
         LAMBDA keywordMatches :
      With(generateTailoringSuggestions(resumeText, keywordMatches), LAMBDA suggestions :
        TailoringResults(resumeText, jobKeywords, keywordMatches, suggestions,
                         applyTailoringChanges(resumeText, suggestions)))))

(***************************************************************************)
(* resume-optimizer.ts (ResumeOptimizer) and AIWorkflowManager             *)
(***************************************************************************)

\* String.prototype.replace(new RegExp(weak, 'gi'), strong) for a pattern of
\* letters and spaces
RECURSIVE ReplaceAllIgnoreCase(_, _, _)
ReplaceAllIgnoreCase(text, weak, strong) ==
  With(IndexOf(ToLowerCase(text), weak), LAMBDA p :
    IF p = 0 THEN text
    ELSE SubSeq(text, 1, p - 1) \o strong
         \o ReplaceAllIgnoreCase(SubSeq(text, p + Len(weak), Len(text)), weak, strong))

strongerVerbs ==
  <<<<<<"w","o","r","k","e","d"," ","o","n">>, <<"d","e","v","e","l","o","p","e","d">>>>, <<<<"r","e","s","p","o","n","s","i","b","l","e"," ","f","o","r">>, <<"m","a","n","a","g","e","d">>>>,
    <<<<"h","e","l","p","e","d"," ","w","i","t","h">>, <<"c","o","n","t","r","i","b","u","t","e","d"," ","t","o">>>>, <<<<"i","n","v","o","l","v","e","d"," ","i","n">>, <<"c","o","l","l","a","b","o","r","a","t","e","d"," ","o","n">>>>,
    <<<<"u","s","e","d">>, <<"u","t","i","l","i","z","e","d">>>>, <<<<"m","a","d","e">>, <<"c","r","e","a","t","e","d">>>>>>

RECURSIVE EnhanceFrom(_, _)
EnhanceFrom(resume, i) ==
  IF i > Len(strongerVerbs) THEN resume
  ELSE With(ReplaceAllIgnoreCase(resume, strongerVerbs[i][1], strongerVerbs[i][2]),
            LAMBDA enhanced : EnhanceFrom(enhanced, i + 1))

enhanceForAggressiveOptimization(resume) == EnhanceFrom(resume, 1)

\* unlike applyTailoringChanges, no test that the original text is present
RECURSIVE applySuggestions(_, _)
applySuggestions(resume, suggestions) ==
  IF Len(suggestions) = 0 THEN resume
  ELSE With(IF Head(suggestions).original # << >> /\ Head(suggestions).suggested # << >>
              THEN ReplaceFirst(resume, Head(suggestions).original,
                                Head(suggestions).suggested)
              ELSE resume,
            LAMBDA optimizedResume : applySuggestions(optimizedResume, Tail(suggestions)))

\* the suggestions a level lets through
LevelFilter(optimizationLevel, suggestions) ==
  CASE optimizationLevel = "basic" ->
         SelectSeq(suggestions, LAMBDA s : s.impact > 12 /\ s.impact < 20)
    [] optimizationLevel = "standard" ->
         SelectSeq(suggestions, LAMBDA s : s.impact > 8)
    [] OTHER -> suggestions

\* applied to the resume tailorResume returned, which already holds every
\* suggestion whose original text was found
applyOptimizationLevel(baseOptimizedResume, optimizationLevel, suggestions) ==
  CASE optimizationLevel \in {"basic", "standard"} ->
         applySuggestions(baseOptimizedResume, LevelFilter(optimizationLevel, suggestions))
    [] optimizationLevel = "aggressive" ->
         enhanceForAggressiveOptimization(applySuggestions(baseOptimizedResume, suggestions))
    [] OTHER -> baseOptimizedResume

\* the scores of the result
Improvements(beforeScore, afterScore) ==
  [beforeScore |-> beforeScore,
   afterScore |-> afterScore,
   improvement |-> IF IsNaN(beforeScore) \/ IsNaN(afterScore) THEN NaN
                   ELSE afterScore - beforeScore]

\* steps 6 and 7, and the result
OptimizationResult(request, initialATSScore, tailoringResults, optimizedATSScore) ==
  IF optimizedATSScore.outcome = "threw" THEN Thrown("Optimization failed")
  ELSE [outcome |-> "returned",
        originalResume |-> request.resumeText,
        optimizedResume |-> applyOptimizationLevel(tailoringResults.tailoredResume,
                                                   request.optimizationLevel,
                                                   tailoringResults.suggestions),
        improvements |-> Improvements(initialATSScore.score, optimizedATSScore.score),
        atsAnalysis |-> optimizedATSScore,
        suggestions |-> tailoringResults.suggestions]

\* step 5
OptimizeTailored(request, jobKeywords, initialATSScore, tailoringResults) ==
  OptimizationResult(request, initialATSScore, tailoringResults,
                     calculateATSScore(tailoringResults.tailoredResume, jobKeywords))

\* steps 2 and 4
OptimizeFor(request, jobKeywords) ==
  With(calculateATSScore(request.resumeText, jobKeywords), LAMBDA initialATSScore :
    IF initialATSScore.outcome = "threw" THEN Thrown("Optimization failed")
    ELSE OptimizeTailored(request, jobKeywords, initialATSScore,
                          tailorResume(request.resumeText, request.jobDescription)))

\* ResumeOptimizer.optimizeResume; of the result, the keyword report, the
\* recommendations and the processing time are left out
optimizeResume(request) ==
  With(analyzeJobPosting(request.jobDescription), LAMBDA jobAnalysis :
    IF jobAnalysis.outcome = "threw" THEN Thrown("Optimization failed")
    ELSE OptimizeFor(request, jobAnalysis.keywords))

\* AIWorkflowManager.optimizeResumeForJob: the level defaults to 'standard';
\* any error is caught and replaced
optimizeResumeForJob(resumeText, jobDescription, optimizationLevel) ==
  With(optimizeResume([resumeText |-> resumeText,
                       jobDescription |-> jobDescription,
                       optimizationLevel |-> IF optimizationLevel = "undefined"
                                               THEN "standard" ELSE optimizationLevel]),
       LAMBDA optimized :
    IF optimized.outcome = "threw" THEN Thrown("Failed to optimize resume")
    ELSE optimized)

\* AIWorkflowManager.analyzeJobPosting
managerAnalyzeJobPosting(jobDescription) ==
  With(analyzeJobPosting(jobDescription), LAMBDA analysis :
    IF analysis.outcome = "threw" THEN Thrown("Failed to analyze job posting")
    ELSE analysis)

(***************************************************************************)
(* Runs that overlap at their await points                                 *)
(***************************************************************************)

\* AIWorkflowManager.tailorResumeBasic after its await
TailoredBasic(tailoringResults) ==
  [outcome |-> "returned",
   tailoredResume |-> tailoringResults.tailoredResume,
   atsScore |-> tailoringResults.atsScore,
   improvements |-> tailoringResults.improvements]

tailorResumeBasic(resumeText, jobDescription) ==
  TailoredBasic(tailorResume(resumeText, jobDescription))

NothingYet == [outcome |-> "none"]

CreatedRun(request) ==
  [request |-> request, pc |-> "created", held |-> NothingYet, value |-> NothingYet]

SettledRun(request, value) ==
  [request |-> request, pc |-> "settled", held |-> NothingYet, value |-> value]

\* optimizeResume up to its await: steps 1 to 4, the call of tailorResume
\* included, which runs to its end before the caller is suspended
StartedOptimization(request) ==
  With(analyzeJobPosting(request.jobDescription), LAMBDA jobAnalysis :
    IF jobAnalysis.outcome = "threw"
      THEN SettledRun(request, Thrown("Optimization failed"))
    ELSE With(calculateATSScore(request.resumeText, jobAnalysis.keywords),
              LAMBDA initialATSScore :
      IF initialATSScore.outcome = "threw"
        THEN SettledRun(request, Thrown("Optimization failed"))
      ELSE [request |-> request, pc |-> "awaiting",
            held |-> [outcome |-> "held",
                      jobKeywords |-> jobAnalysis.keywords,
                      initialATSScore |-> initialATSScore,
                      tailoringResults |->
                        tailorResume(request.resumeText, request.jobDescription)],
            value |-> NothingYet]))

\* a run from its call to its first await
StartedRun(request) ==
  IF request.kind = "tailorResumeBasic"
    THEN [request |-> request, pc |-> "awaiting",
          held |-> [outcome |-> "held",
                    tailoringResults |->
                      tailorResume(request.resumeText, request.jobDescription)],
          value |-> NothingYet]
    ELSE StartedOptimization(request)

\* a run from its await to its end, on the locals it held
ResumedRun(request, held) ==
  SettledRun(request,
             IF request.kind = "tailorResumeBasic"
               THEN TailoredBasic(held.tailoringResults)
               ELSE OptimizeTailored(request, held.jobKeywords, held.initialATSScore,
                                     held.tailoringResults))

\* the continuation of run i takes the locals of the run started last
ResumptionOfLastStarted(runs, order, i) ==
  ResumedRun(runs[i].request, runs[order[Len(order)]].held)

\* the continuation of run i takes the locals of run i
Resumption(runs, order, i) == ResumedRun(runs[i].request, runs[i].held)

\* the request alone
RunAlone(request) ==
  IF request.kind = "tailorResumeBasic"
    THEN tailorResumeBasic(request.resumeText, request.jobDescription)
    ELSE optimizeResume(request)

\* the recommendation of compareOptimizationStrategies; a comparison with
\* NaN is false
Recommendation(basic, standard, aggressive) ==
  IF NumLt(NumAdd(standard.improvements.improvement, 10),
           aggressive.improvements.improvement)
    THEN "aggressive"
  ELSE IF NumGe(basic.improvements.improvement,
                NumAdd(standard.improvements.improvement, -5))
    THEN "basic"
  ELSE "standard"

\* compareOptimizationStrategies after Promise.all: it rejects as the first
\* rejected run did, and every rejection of optimizeResume reads alike
ComparedStrategies(basic, standard, aggressive) ==
  IF \E r \in {basic, standard, aggressive} : r.outcome = "threw"
    THEN Thrown("Optimization failed")
  ELSE [outcome |-> "returned",
        basic |-> basic, standard |-> standard, aggressive |-> aggressive,
        recommendation |-> Recommendation(basic, standard, aggressive)]

(***************************************************************************)
(* n8n-workflows (N8nWorkflowExecutor)                                     *)
(***************************************************************************)

\* the keys of N8N_WORKFLOWS
WorkflowIds ==
  {"KEYWORD_EXTRACTION", "RESUME_ENHANCEMENT", "CONTENT_OPTIMIZATION",
   "SKILL_MATCHING", "BULLET_POINT_GENERATOR", "COVER_LETTER_GENERATOR"}

\* the workflows fallbackToLocal has a local computation for
LocalFallbacks == {"KEYWORD_EXTRACTION", "SKILL_MATCHING", "CONTENT_OPTIMIZATION"}

\* const { retries = 2 } = options
DefaultRetries == 2

\* what one makeRequest can end with: a successful body, a status that is
\* not ok, a body without success, the abort of the timeout, a failed fetch
RequestOutcomes == {"ok", "http error", "unsuccessful", "aborted", "fetch failed"}

AnotherAttemptFollowsAlways(attempt, retries) == attempt <= retries
\* if (attempt < retries)
AnotherAttemptFollows(attempt, retries) == attempt < retries

\* this.delay(1000 * (attempt + 1))
BackoffMs(attempt) == 1000 * (attempt + 1)

\* skill and req name each other: one holds the other, whatever the case
SkillMeets(skill, req) ==
  \/ Includes(ToLowerCase(req), ToLowerCase(skill))
  \/ Includes(ToLowerCase(skill), ToLowerCase(req))

\* matchedSkills.length / jobRequirements.length * 100, rounded
SkillMatchScore(matchedSkills, jobRequirements) ==
  IF Len(jobRequirements) > 0
    THEN RoundPercent(Len(matchedSkills), Len(jobRequirements))
    ELSE 100

\* the try block of fallbackSkillMatching for two arrays of strings
SkillMatching(candidateSkills, jobRequirements) ==
  With(SelectSeq(candidateSkills, LAMBDA skill :
         \E r \in 1..Len(jobRequirements) : SkillMeets(skill, jobRequirements[r])),
       LAMBDA matchedSkills :
    [outcome |-> "returned", success |-> TRUE,
     matchScore |-> SkillMatchScore(matchedSkills, jobRequirements),
     matchedSkills |-> matchedSkills,
     missingSkills |->
       SelectSeq(jobRequirements, LAMBDA req :
         ~\E c \in 1..Len(candidateSkills) : SkillMeets(candidateSkills[c], req))])

\* N8nWorkflowExecutor.fallbackSkillMatching of data whose two fields are
\* arrays, which data.candidateSkills || [] leaves as they are
fallbackSkillMatching(data) == SkillMatching(data.candidateSkills, data.jobRequirements)

\* the keys of a workflow's inputSchema whose type does not end in '?'
RequiredFields(workflowId) ==
  CASE workflowId = "KEYWORD_EXTRACTION" -> {"jobDescription"}
    [] workflowId = "RESUME_ENHANCEMENT" ->
         {"resumeText", "targetKeywords", "jobDescription", "enhancementLevel"}
    [] workflowId = "CONTENT_OPTIMIZATION" ->
         {"sectionContent", "sectionType", "targetKeywords", "jobContext"}
    [] workflowId = "SKILL_MATCHING" ->
         {"candidateSkills", "jobRequirements", "industryContext"}
    [] workflowId = "BULLET_POINT_GENERATOR" ->
         {"originalBullet", "role", "company", "achievements", "targetKeywords"}
    [] workflowId = "COVER_LETTER_GENERATOR" ->
         {"resumeText", "jobDescription", "companyName", "roleTitle", "personalInfo"}
    [] OTHER -> {}

\* validateInput, of the keys of data: if (!isOptional && !(key in data)) throw
validateInputThrows(fields, workflowId) == RequiredFields(workflowId) \ fields # {}

\* what the service behind a workflow can do with the requests of one
\* executeWorkflow: fail every one of them, or answer with a body
WorkflowReplies ==
  {[success |-> FALSE, enhancedResume |-> << >>]}
    \cup {[success |-> TRUE, enhancedResume |-> t] : t \in {<< >>, <<"p","y","t","h","o","n"," ","d","e","v","e","l","o","p","e","r">>}}

\* executeWorkflow from its call to its return, every request of the loop
\* ending as the reply says
executeWorkflow(workflowId, fields, reply) ==
  IF workflowId \notin WorkflowIds THEN Thrown("Unknown workflow")
  ELSE IF validateInputThrows(fields, workflowId) THEN Thrown("Missing required field")
  ELSE IF reply.success
    THEN [outcome |-> "returned", success |-> TRUE, data |-> reply]
  ELSE [outcome |-> "returned", success |-> workflowId \in LocalFallbacks,
        data |-> reply]

(***************************************************************************)
(* resume-optimizer (optimizeResumeAI)                                     *)
(***************************************************************************)

\* the keys of the data optimizeResumeAI calls RESUME_ENHANCEMENT with
EnhancementFields ==
  {"resumeContent", "jobDescription", "targetRole", "company", "enhancementLevel"}

\* steps 3 to 6 of optimizeResumeAI, inside the outer try: the two scores
\* are taken on the keywords of the job analysis; of the result, the
\* reports, the cover letter, the improvement percentage are left out
AIOptimizationResult(request, jobKeywords, optimizedResume) ==
  With(calculateATSScore(request.resumeText, jobKeywords), LAMBDA initialATSScore :
    IF initialATSScore.outcome = "threw" THEN optimizeResume(request)
    ELSE With(calculateATSScore(optimizedResume, jobKeywords), LAMBDA optimizedATSScore :
      IF optimizedATSScore.outcome = "threw" THEN optimizeResume(request)
      ELSE [outcome |-> "returned",
            originalResume |-> request.resumeText,
            optimizedResume |-> optimizedResume,
            improvements |-> [beforeScore |-> initialATSScore.score,
                              afterScore |-> optimizedATSScore.score],
            processingMethod |-> "ai"]))

\* the keys of the data it calls 'COVER_LETTER_GENERATION' with
CoverLetterFields == {"resumeContent", "jobDescription", "candidateName", "company"}

\* step 2 of optimizeResumeAI, the inner try: whatever executeWorkflow
\* throws, for the enhancement or, at the level 'aggressive', for the cover
\* letter, is caught and answered with the local pipeline; a response
\* without success leaves optimizedResume = resumeText
EnhanceWithAI(request, jobKeywords, enhancementResult, reply) ==
  IF enhancementResult.outcome = "threw" THEN optimizeResume(request)
  ELSE IF /\ enhancementResult.success
          /\ request.optimizationLevel = "aggressive"
          /\ executeWorkflow("COVER_LETTER_GENERATION", CoverLetterFields, reply).outcome
               = "threw"
    THEN optimizeResume(request)
  ELSE AIOptimizationResult(request, jobKeywords,
         IF enhancementResult.success /\ enhancementResult.data.enhancedResume # << >>
           THEN enhancementResult.data.enhancedResume
           ELSE request.resumeText)

\* optimizeResumeAI: step 1 is jobAnalyzer.analyzeJobPosting, in the outer
\* try, whose catch returns resumeOptimizer.optimizeResume(request)
optimizeResumeAI(request, reply) ==
  With(analyzeJobPosting(request.jobDescription), LAMBDA jobAnalysis :
    IF jobAnalysis.outcome = "threw" THEN optimizeResume(request)
    ELSE EnhanceWithAI(request, jobAnalysis.keywords,
                       executeWorkflow("RESUME_ENHANCEMENT", EnhancementFields, reply),
                       reply))

(***************************************************************************)
(* Batch operations                                                        *)
(***************************************************************************)

\* ResumeOptimizer.quickOptimize: optimizeResume at the level 'standard'
quickOptimize(resumeText, jobDescription) ==
  With(optimizeResume([resumeText |-> resumeText, jobDescription |-> jobDescription,
                       optimizationLevel |-> "standard"]), LAMBDA optimized :
    IF optimized.outcome = "threw" THEN optimized
    ELSE [outcome |-> "returned",
          optimizedResume |-> optimized.optimizedResume,
          score |-> optimized.improvements.afterScore])

JobIndexFromOne(results) == Len(results) + 1
\* for (let i = 0; ...; i++) with one results.push per pass
JobIndex(results) == Len(results)

\* the body of batchOptimize's loop: the try, and the catch that pushes the
\* resume as it was; the keyword report's overallMatch of a job that
\* succeeded is left out
batchOptimizeEntry(i, resumeText, jobDescription) ==
  With(quickOptimize(resumeText, jobDescription), LAMBDA optimization :
    IF optimization.outcome = "threw"
      THEN [jobIndex |-> i, optimizedResume |-> resumeText, score |-> 0,
            matchPercentage |-> 0]
    ELSE [jobIndex |-> i, optimizedResume |-> optimization.optimizedResume,
          score |-> optimization.score])

\* the body of batchOptimizeResumes' loop; the score is called atsScore
\* there, and the processing time is left out
batchOptimizeResumesEntry(i, resumeText, job) ==
  With(optimizeResumeForJob(resumeText, job.description, "standard"),
       LAMBDA optimization :
    IF optimization.outcome = "threw"
      THEN [jobIndex |-> i, role |-> job.role, optimizedResume |-> resumeText,
            score |-> 0, matchPercentage |-> 0]
    ELSE [jobIndex |-> i, role |-> job.role,
          optimizedResume |-> optimization.optimizedResume,
          score |-> optimization.improvements.afterScore])

\* executeBatch: what results.map makes of one settled promise
SettledResponse(settled) ==
  IF settled.outcome = "threw"
    THEN [success |-> FALSE, data |-> Undefined, error |-> settled.error]
  ELSE [success |-> settled.success, data |-> settled.data]

\* executeBatch: Promise.allSettled of one executeWorkflow per request
executeBatch(requests) ==
  [k \in 1..Len(requests) |->
     SettledResponse(executeWorkflow(requests[k].workflowId, requests[k].fields,
                                     requests[k].reply))]

(***************************************************************************)
(* API routes (app/api/analyze, app/api/optimize, app/api/preview)         *)
(***************************************************************************)

\* keywords.filter(keyword => !resumeText.toLowerCase().includes(
\* keyword.toLowerCase())).slice(0, 5)
previewMissingKeywords(resumeText, keywords) ==
  With(SelectSeq(keywords, LAMBDA keyword :
                   ~Includes(ToLowerCase(resumeText), ToLowerCase(keyword))),
       LAMBDA missing : SubSeq(missing, 1, Min(5, Len(missing))))

\* the preview of a score and the missing keywords
PreviewResult(score, missingKeywords) ==
  [outcome |-> "returned",
   currentScore |-> score,
   projectedScore |-> NumMin(NumAdd(score, Min(Len(missingKeywords) * 3, 25)), 100),
   missingKeywords |-> missingKeywords,
   estimatedImpact |-> Min(Len(missingKeywords) * 3, 25)]

\* getOptimizationPreview once the job analysis has given its keywords
PreviewOf(resumeText, keywords) ==
  With(calculateATSScore(resumeText, keywords), LAMBDA currentATS :
    IF currentATS.outcome = "threw"
      THEN Thrown("Failed to generate optimization preview")
      ELSE PreviewResult(currentATS.score, previewMissingKeywords(resumeText, keywords)))

\* AIWorkflowManager.getOptimizationPreview: any error is caught and replaced
getOptimizationPreview(resumeText, jobDescription) ==
  With(analyzeJobPosting(jobDescription), LAMBDA jobAnalysis :
    IF jobAnalysis.outcome = "threw"
      THEN Thrown("Failed to generate optimization preview")
      ELSE PreviewOf(resumeText, jobAnalysis.keywords))

\* !value, of a field of the body that is absent or a string
Falsy(value) == value = Undefined \/ value = << >>

\* NextResponse.json(...) of a request the route refuses, before any call
\* of the workflow manager
BadRequest(error) ==
  [outcome |-> "returned", status |-> 400, error |-> error, message |-> "",
   managerInvoked |-> FALSE]

\* the catch of a route: error instanceof Error ? error.message : ...
ServerError(error, message, managerInvoked) ==
  [outcome |-> "returned", status |-> 500, error |-> error, message |-> message,
   managerInvoked |-> managerInvoked]

\* NextResponse.json({ success: true, data })
Success(data) ==
  [outcome |-> "returned", status |-> 200, error |-> "", message |-> "",
   managerInvoked |-> TRUE, data |-> data]

\* the message of what await request.json() or the destructuring of its
\* value throws, for a body that is no JSON object
BodyError(body) ==
  IF body.json = "malformed" THEN "SyntaxError: Unexpected token"
  ELSE "TypeError: Cannot destructure property of null"

\* what the manager's call ended with, as the route answers it
Answer(ended, error) ==
  IF ended.outcome = "threw" THEN ServerError(error, ended.error, TRUE)
  ELSE Success(ended)

\* POST of app/api/analyze/route.ts
postAnalyze(body) ==
  IF body.json # "object" THEN ServerError("Analysis failed", BodyError(body), FALSE)
  ELSE IF Falsy(body.resumeText) THEN BadRequest("Resume text is required")
  ELSE Answer(analyzeResume(body.resumeText, body.targetRole), "Analysis failed")

OptimizeRefusesResumeOnly(body) == Falsy(body.resumeText)
\* if (!resumeText || !jobDescription)
OptimizeRefuses(body) == Falsy(body.resumeText) \/ Falsy(body.jobDescription)

\* POST of app/api/optimize/route.ts
postOptimize(body) ==
  IF body.json # "object" THEN ServerError("Optimization failed", BodyError(body), FALSE)
  ELSE IF OptimizeRefuses(body)
    THEN BadRequest("Resume text and job description are required")
  ELSE Answer(optimizeResumeForJob(body.resumeText, body.jobDescription,
                                   body.optimizationLevel),
              "Optimization failed")

\* POST of app/api/preview/route.ts
postPreview(body) ==
  IF body.json # "object"
    THEN ServerError("Preview generation failed", BodyError(body), FALSE)
  ELSE IF Falsy(body.resumeText) \/ Falsy(body.jobDescription)
    THEN BadRequest("Resume text and job description are required")
  ELSE Answer(getOptimizationPreview(body.resumeText, body.jobDescription),
              "Preview generation failed")

(***************************************************************************)
(* Inputs                                                                  *)
(***************************************************************************)

\* sequences over the elements of S, of length at most n
RECURSIVE SeqsUpTo(_, _)
SeqsUpTo(S, n) ==
  IF n = 0 THEN {<< >>}
  ELSE LET shorter == SeqsUpTo(S, n - 1)
       IN shorter \cup {Append(q, e) : q \in shorter, e \in S}

\* the texts of at most n of the given lines
TextsOf(lines, n) == {JoinWith(q, <<"\n">>) : q \in SeqsUpTo(lines, n)}

MaxResumeLines == 2
MaxKeywords == 2
MaxPostingLines == 2
MaxRetriesOption == 3

ResumeLines ==
  {<<"E","X","P","E","R","I","E","N","C","E">>,
   <<"S","k","i","l","l","s",":"," ","P","y","t","h","o","n",","," ","S","Q","L",",",
        " ","n","o","d","e",".","j","s">>,
   <<"E","d","u","c","a","t","i","o","n">>,
   <<"D","e","v","e","l","o","p","e","d"," ","3"," ","a","p","p","s"," ","i","n"," ",
        "R","e","a","c","t">>,
   <<"r","e","s","p","o","n","s","i","b","l","e"," ","f","o","r"," "," ","t","e","s",
        "t","i","n","g">>}

ResumeTexts == TextsOf(ResumeLines, MaxResumeLines)

KeywordVocabulary == {<<"p","y","t","h","o","n">>, <<"n","o","d","e",".","j","s">>, <<"c","+","+">>, <<"c","o","n","s","t","r","u","c","t","o","r">>, <<"r","e","a","c","t">>}

KeywordLists == SeqsUpTo(KeywordVocabulary, MaxKeywords)

TargetRoles ==
  {Undefined, << >>, <<"p","y","t","h","o","n">>, <<"c","+","+">>, <<"s","e","n","i","o","r"," ","(","r","e","m","o","t","e">>, <<"[","c","o","n","t","r","a","c","t">>, <<"D","e","v","e","l","o","p","e","r">>}

PostingLines ==
  {<< >>,
   <<"J","o","b"," ","T","i","t","l","e",":"," ","B","a","c","k","e","n","d"," ","D",
        "e","v","e","l","o","p","e","r">>,
   <<"C","o","m","p","a","n","y",":"," ","A","c","m","e"," ","C","o","r","p">>,
   <<"L","o","c","a","t","i","o","n",":"," ","B","e","r","l","i","n",","," ","G","e",
        "r","m","a","n","y">>,
   <<"W","e"," ","h","i","r","e"," ","a"," ","p","r","o","g","r","a","m","m","e","r">>,
   <<"J","o","i","n"," ","A","c","m","e"," ","L","a","b","s"," ","t","o","d","a","y">>,
   <<"G","r","e","a","t"," ","a","t"," ","I","n","i","t","e","c","h"," ","i","n"," ",
        "A","u","s","t","i","n",","," ","T","X"," ","n","o","w">>,
   <<"R","e","m","o","t","e"," ","r","o","l","e",","," ","C","+","+"," ","a","n","d",
        " ","P","y","t","h","o","n">>,
   <<"-"," ","3","+"," ","y","e","a","r","s"," ","o","f"," ","P","y","t","h","o","n",
        " ","e","x","p","e","r","i","e","n","c","e">>,
   <<"R","e","q","u","i","r","e","m","e","n","t","s",":">>,
   <<"P","r","e","f","e","r","r","e","d"," ","q","u","a","l","i","f","i","c","a","t",
        "i","o","n","s">>,
   <<"$","1","2","0",",","0","0","0"," ","-"," ","$","1","6","0",",","0","0","0"," ",
        "p","e","r"," ","y","e","a","r">>,
   <<"P","a","y"," ","1","2","0","k"," ","-"," ","1","6","0","K">>,
   <<"h","i">>}

PostingTexts == TextsOf(PostingLines, MaxPostingLines)

TailoredResumeLines ==
  {<<"S","k","i","l","l","s">>,
   <<"-"," ","b","u","i","l","t"," ","p","o","s","t","g","r","e","s","q","l"," ","b",
        "a","c","k","u","p","s">>,
   <<"E","x","p","e","r","i","e","n","c","e">>,
   <<"-"," ","3"," ","y","e","a","r","s"," ","e","x","p","e","r","i","e","n","c","e",
        " ","i","n"," ","J","a","v","a">>,
   <<"w","o","r","k","e","d"," ","o","n"," ","t","e","s","t","i","n","g">>}

TailoredResumeTexts == TextsOf(TailoredResumeLines, MaxResumeLines)

JobDescriptionLines ==
  {<<"p","o","s","t","g","r","e","s"," ","s","q","l">>,
   <<"P","y","t","h","o","n"," ","a","n","d"," ","D","o","c","k","e","r"," ","r","e",
        "q","u","i","r","e","d">>,
   <<"R","e","a","c","t"," ","d","e","v","e","l","o","p","e","r"," ","(","C","+","+",
        ")">>,
   <<"j","a","v","a"," ","t","e","s","t","i","n","g">>}

JobDescriptions == TextsOf(JobDescriptionLines, MaxPostingLines)

OptimizationLevels == {"undefined", "basic", "standard", "aggressive"}

\* options.retries: not given, or a number
RetriesOptions == {<< >>} \cup {<<n>> : n \in 0..MaxRetriesOption}

MaxJobs == 2

BatchResumeTexts == TextsOf(TailoredResumeLines, 1)

BatchJobDescriptions == TextsOf(JobDescriptionLines, 1)

\* the jobDescriptions of batchOptimize
JobDescriptionLists == SeqsUpTo(BatchJobDescriptions, MaxJobs)

\* the jobDescriptions of batchOptimizeResumes
JobLists ==
  SeqsUpTo({[description |-> d, role |-> <<"D","e","v","e","l","o","p","e","r">>] : d \in BatchJobDescriptions},
           MaxJobs)

\* the requests of executeBatch: a workflow, the keys of its data, and what
\* the service does with it
BatchRequests ==
  {[workflowId |-> w, fields |-> f, reply |-> r] :
     w \in {"KEYWORD_EXTRACTION", "RESUME_ENHANCEMENT"},
     f \in {{}, {"jobDescription"}, RequiredFields("RESUME_ENHANCEMENT")},
     r \in WorkflowReplies}
    \cup {[workflowId |-> "UNKNOWN", fields |-> {}, reply |-> r] : r \in WorkflowReplies}

BatchRequestLists == SeqsUpTo(BatchRequests, MaxJobs)

MaxTextWords == 3

KeywordTextWords == {<<"c","o","d","e">>, <<"t","h","e">>, <<"r","e","v","i","e","w">>, <<"P","y","t","h","o","n",",">>, <<"n","o","d","e",".","j","s">>}

\* the texts extractKeywords is given: words with one space in between
KeywordTexts == {JoinWith(q, <<" ">>) : q \in SeqsUpTo(KeywordTextWords, MaxTextWords)}

\* the keywords analyzeKeywordImportance is given
ImportanceKeywordLists ==
  SeqsUpTo(KeywordVocabulary \cup {<<"j","a","v","a","s","c","r","i","p","t">>, <<"r","e","a","c","t","j","s">>}, MaxKeywords)

ImportanceContexts ==
  {<< >>, <<"J","a","v","a","S","c","r","i","p","t"," ","d","e","v","e","l","o","p","e","r">>, <<"p","y","t","h","o","n"," ","i","s"," ","r","e","q","u","i","r","e","d">>, <<"5"," ","y","e","a","r","s"," ","o","f"," ","j","a","v","a","s","c","r","i","p",
        "t">>,
   <<"r","e","a","c","t",","," ","R","e","a","c","t"," ","a","n","d"," ","r","e","a",
        "c","t","j","s">>, <<"P","y","t","h","o","n"," ","a","n","d"," ","p","y","t","h","o","n">>,
   <<"p","y","t","h","o","n"," ","P","y","t","h","o","n"," ","p","y","t","h","o","n",
        ","," ","p","y","t","h","o","n">>}

MaxSkills == 2

SkillVocabulary == {<<"P","y","t","h","o","n">>, <<"p","y","t","h","o","n">>, <<"p","y">>, <<"S","Q","L">>}

\* a field of the data of skill matching: an array of strings
SkillLists == SeqsUpTo(SkillVocabulary, MaxSkills)

\* the resumes applyTailoringChanges is followed on: those of tailorResume, one
\* that holds a section twice, and one with dollar signs in a bullet line
ApplyResumeTexts ==
  TailoredResumeTexts
    \cup {<<"S","k","i","l","l","s","\n","-"," ","b","u","i","l","t"," ","b","a","c","k","u",
        "p","s","\n","S","k","i","l","l","s","\n","-"," ","b","u","i","l","t"," ","b","a",
        "c","k","u","p","s","\n","E","d","u","c","a","t","i","o","n">>,
          <<"S","k","i","l","l","s","\n","-"," ","s","a","v","e","d"," ","$","$"," ","o","n",
        " ","b","a","c","k","u","p","s","\n","E","d","u","c","a","t","i","o","n">>}

\* the requests that meet on the singletons: optimizeResume and
\* tailorResumeBasic, on two resumes and two job descriptions
ConcurrentResumeTexts == {<<"-"," ","b","u","i","l","t"," ","p","o","s","t","g","r","e","s","q","l"," ","b",
        "a","c","k","u","p","s">>, <<"w","o","r","k","e","d"," ","o","n"," ","t","e","s","t","i","n","g">>}

ConcurrentJobDescriptions == {<<"p","o","s","t","g","r","e","s"," ","s","q","l">>, <<"j","a","v","a"," ","t","e","s","t","i","n","g">>}

ConcurrentRequests ==
  [kind : {"tailorResumeBasic"}, resumeText : ConcurrentResumeTexts,
   jobDescription : ConcurrentJobDescriptions, optimizationLevel : {"undefined"}]
  \cup [kind : {"optimizeResume"}, resumeText : ConcurrentResumeTexts,
        jobDescription : ConcurrentJobDescriptions, optimizationLevel : {"standard"}]

\* the three requests of compareOptimizationStrategies
StrategyRequests(resumeText, jobDescription) ==
  [i \in 1..3 |->
     [kind |-> "optimizeResume", resumeText |-> resumeText,
      jobDescription |-> jobDescription,
      optimizationLevel |-> <<"basic", "standard", "aggressive">>[i]]]

\* the keywords of a job analysis: few, or more than the preview lists
PreviewKeywordLists ==
  KeywordLists
    \cup {<<<<"p","y","t","h","o","n">>, <<"d","o","c","k","e","r">>, <<"r","e","a","c","t">>, <<"s","q","l">>, <<"a","w","s">>, <<"g","i","t">>>>,
          <<<<"p","y","t","h","o","n">>, <<"d","o","c","k","e","r">>, <<"k","u","b","e","r","n","e","t","e","s">>, <<"s","q","l">>, <<"a","w","s">>, <<"g","i","t">>, <<"j","a","v","a">>>>}

\* a field of a request body: absent, the empty string, or a text
BodyResumeTexts == {Undefined} \cup BatchResumeTexts
BodyJobDescriptions == {Undefined} \cup BatchJobDescriptions

\* the bodies of a POST: a JSON object, the JSON null, or no JSON at all
Bodies ==
  {[json |-> "object", resumeText |-> r, jobDescription |-> j,
    optimizationLevel |-> l, targetRole |-> t] :
     r \in BodyResumeTexts, j \in BodyJobDescriptions,
     l \in {"undefined", "aggressive"}, t \in {Undefined, <<"p","y","t","h","o","n">>}}
    \cup {[json |-> k, resumeText |-> Undefined, jobDescription |-> Undefined,
           optimizationLevel |-> "undefined", targetRole |-> Undefined] :
            k \in {"null", "malformed"}}

(***************************************************************************)
(* State: the call being served, what it gave, and how far an              *)
(* executeWorkflow call has come                                           *)
(***************************************************************************)

VARIABLES call, result, exec

vars == <<call, result, exec>>

NotExecuting ==
  [pc |-> "idle", attempt |-> 0, retries |-> 0, requests |-> 0,
   failures |-> 0, delays |-> << >>]

\* no call is in progress: the services are stateless singletons
Idle == call.op = "none"

Init ==
  /\ call = [op |-> "none"]
  /\ result = [outcome |-> "none"]
  /\ exec = NotExecuting

\* the caller takes the result; the service is ready for the next call
Return ==
  /\ ~Idle
  /\ result.outcome \in {"returned", "threw"}
  /\ call' = [op |-> "none"]
  /\ result' = [outcome |-> "none"]
  /\ exec' = NotExecuting

ScoreResume ==
  /\ Idle
  /\ \E resumeText \in ResumeTexts, jobKeywords \in KeywordLists :
       /\ call' = [op |-> "calculateATSScore", resumeText |-> resumeText,
                   jobKeywords |-> jobKeywords]
       /\ result' = calculateATSScore(resumeText, jobKeywords)
  /\ UNCHANGED exec

AnalyzeResume ==
  /\ Idle
  /\ \E resumeText \in ResumeTexts, targetRole \in TargetRoles :
       /\ call' = [op |-> "analyzeResume", resumeText |-> resumeText,
                   targetRole |-> targetRole]
       /\ result' = analyzeResume(resumeText, targetRole)
  /\ UNCHANGED exec

\* calculateOverallScore as a function of the breakdown alone
KeywordMatchSamples == {5 * n : n \in 0..20} \cup {NaN}
ContentScoreSamples == {48, 60, 75, 85, 100}
StructureScoreSamples == {0, 30, 60, 100}
FormatScoreSamples == {65, 80, 100}
LengthScoreSamples == {40, 70, 100}

OverallOfBreakdown ==
  /\ Idle
  /\ \E k \in KeywordMatchSamples, c \in ContentScoreSamples,
        s \in StructureScoreSamples, f \in FormatScoreSamples,
        l \in LengthScoreSamples :
       LET breakdown == [keywordMatch |-> k, contentScore |-> c,
                         structureScore |-> s, formatScore |-> f,
                         lengthScore |-> l]
       IN /\ call' = [op |-> "calculateOverallScore"]
          /\ result' = [outcome |-> "returned", breakdown |-> breakdown,
                        score |-> calculateOverallScore(breakdown)]
  /\ UNCHANGED exec

AnalyzeJobPosting ==
  /\ Idle
  /\ \E jobText \in PostingTexts :
       /\ call' = [op |-> "analyzeJobPosting", jobText |-> jobText]
       /\ result' = analyzeJobPosting(jobText)
  /\ UNCHANGED exec

ManagerAnalyzeJobPosting ==
  /\ Idle
  /\ \E jobText \in PostingTexts :
       /\ call' = [op |-> "AIWorkflowManager.analyzeJobPosting", jobText |-> jobText]
       /\ result' = managerAnalyzeJobPosting(jobText)
  /\ UNCHANGED exec

\* extractRequirements and extractSalaryRange as functions of the cleaned
\* text alone
ExtractDetails ==
  /\ Idle
  /\ \E jobText \in PostingTexts :
       /\ call' = [op |-> "extractDetails", jobText |-> jobText]
       /\ result' = [outcome |-> "returned",
                     requirements |-> extractRequirements(cleanJobText(jobText)),
                     salary |-> extractSalaryRange(cleanJobText(jobText))]
  /\ UNCHANGED exec

\* extractJobTitle, extractCompany and extractLocation as functions of the
\* cleaned text alone
ExtractHeadings ==
  /\ Idle
  /\ \E jobText \in PostingTexts :
       LET cleanText == cleanJobText(jobText)
       IN /\ call' = [op |-> "extractHeadings", jobText |-> jobText]
          /\ result' = [outcome |-> "returned",
                        jobTitle |-> extractJobTitle(cleanText),
                        company |-> extractCompany(cleanText),
                        location |-> extractLocation(cleanText)]
  /\ UNCHANGED exec

TailorResume ==
  /\ Idle
  /\ \E resumeText \in TailoredResumeTexts, jobDescription \in JobDescriptions :
       /\ call' = [op |-> "tailorResume", resumeText |-> resumeText,
                   jobDescription |-> jobDescription]
       /\ result' = tailorResume(resumeText, jobDescription)
  /\ UNCHANGED exec

OptimizeResumeForJob ==
  /\ Idle
  /\ \E resumeText \in TailoredResumeTexts, jobDescription \in JobDescriptions,
        optimizationLevel \in OptimizationLevels :
       /\ call' = [op |-> "optimizeResumeForJob", resumeText |-> resumeText,
                   jobDescription |-> jobDescription,
                   optimizationLevel |-> optimizationLevel]
       /\ result' = optimizeResumeForJob(resumeText, jobDescription, optimizationLevel)
  /\ UNCHANGED exec

\* optimizeResumeAI, with the level its destructuring defaults to
OptimizeResumeAI ==
  /\ Idle
  /\ \E resumeText \in TailoredResumeTexts, jobDescription \in JobDescriptions,
        optimizationLevel \in OptimizationLevels, reply \in WorkflowReplies :
       /\ call' = [op |-> "optimizeResumeAI", resumeText |-> resumeText,
                   jobDescription |-> jobDescription,
                   optimizationLevel |-> optimizationLevel, reply |-> reply]
       /\ result' = optimizeResumeAI(
                      [resumeText |-> resumeText, jobDescription |-> jobDescription,
                       optimizationLevel |-> IF optimizationLevel = "undefined"
                                               THEN "standard" ELSE optimizationLevel],
                      reply)
  /\ UNCHANGED exec

\* step 7 of optimizeResume on what step 4, tailorResume, returned: the
\* level applied to the tailored resume and its suggestions
ApplyOptimizationLevel ==
  /\ call.op = "tailorResume"
  /\ result.outcome = "returned"
  /\ \E optimizationLevel \in OptimizationLevels \ {"undefined"} :
       /\ call' = [op |-> "applyOptimizationLevel",
                   originalResume |-> call.resumeText,
                   baseOptimizedResume |-> result.tailoredResume,
                   optimizationLevel |-> optimizationLevel,
                   suggestions |-> result.suggestions]
       /\ result' = [outcome |-> "returned",
                     optimizedResume |->
                       applyOptimizationLevel(result.tailoredResume, optimizationLevel,
                                              result.suggestions)]
  /\ UNCHANGED exec

\* executeWorkflow up to its first request: an unknown workflow and data
\* that validateInput rejects throw before any request
ExecuteWorkflow ==
  /\ Idle
  /\ \E workflowId \in WorkflowIds \cup {"UNKNOWN"}, dataValid \in BOOLEAN,
        retriesOption \in RetriesOptions :
       /\ call' = [op |-> "executeWorkflow", workflowId |-> workflowId,
                   dataValid |-> dataValid, retriesOption |-> retriesOption]
       /\ IF workflowId \notin WorkflowIds
            THEN /\ result' = Thrown("Unknown workflow")
                 /\ exec' = [NotExecuting EXCEPT !.pc = "done"]
          ELSE IF ~dataValid
            THEN /\ result' = Thrown("Missing required field")
                 /\ exec' = [NotExecuting EXCEPT !.pc = "done"]
          ELSE /\ result' = [outcome |-> "pending"]
               /\ exec' = [NotExecuting EXCEPT
                             !.pc = "request",
                             !.retries = IF retriesOption = << >>
                                           THEN DefaultRetries
                                           ELSE retriesOption[1]]

\* one pass of the loop body: makeRequest, and what follows its outcome
MakeRequest ==
  /\ exec.pc = "request"
  /\ \E response \in RequestOutcomes :
       IF response = "ok"
         THEN /\ result' = [outcome |-> "returned", success |-> TRUE, by |-> "n8n"]
              /\ exec' = [exec EXCEPT !.pc = "done", !.requests = @ + 1]
         ELSE /\ result' = [outcome |-> "pending", lastError |-> response]
              /\ exec' = IF AnotherAttemptFollows(exec.attempt, exec.retries)
                           THEN [exec EXCEPT !.pc = "delay", !.requests = @ + 1,
                                             !.failures = @ + 1]
                           ELSE [exec EXCEPT !.pc = "fallback", !.requests = @ + 1,
                                             !.failures = @ + 1,
                                             !.attempt = @ + 1]
  /\ UNCHANGED call

\* await this.delay(...), then the next pass of the loop
Delay ==
  /\ exec.pc = "delay"
  /\ exec' = [exec EXCEPT !.pc = "request",
                          !.delays = Append(@, BackoffMs(exec.attempt)),
                          !.attempt = @ + 1]
  /\ UNCHANGED <<call, result>>

\* fallbackToLocal: a local computation, which catches its own errors, for
\* three of the workflows, and a failure response for the others
FallbackToLocal ==
  /\ exec.pc = "fallback"
  /\ IF call.workflowId \in LocalFallbacks
       THEN \E localSuccess \in BOOLEAN :
              result' = [outcome |-> "returned", success |-> localSuccess, by |-> "local"]
       ELSE result' = [outcome |-> "returned", success |-> FALSE, by |-> "fallback"]
  /\ exec' = [exec EXCEPT !.pc = "done"]
  /\ UNCHANGED call

\* tailorResume up to the forEach of applyTailoringChanges: the suggestions
\* are those of generateTailoringSuggestions, sorted; passes holds the text
\* before the first pass and after every pass made so far
ApplyTailoringChanges ==
  /\ Idle
  /\ \E resumeText \in ApplyResumeTexts, jobDescription \in JobDescriptions :
       /\ call' = [op |-> "applyTailoringChanges", resumeText |-> resumeText,
                   suggestions |->
                     generateTailoringSuggestions(resumeText,
                       analyzeKeywordMatches(extractKeywords(jobDescription),
                                             extractKeywords(resumeText), resumeText))]
       /\ result' = [outcome |-> IF Len(call'.suggestions) = 0
                                   THEN "returned" ELSE "pending",
                     tailoredResume |-> resumeText,
                     passes |-> <<resumeText>>]
  /\ UNCHANGED exec

\* one pass of the forEach, for the next suggestion
ApplyNextSuggestion ==
  /\ call.op = "applyTailoringChanges"
  /\ result.outcome = "pending"
  /\ result' =
       [outcome |-> IF Len(result.passes) = Len(call.suggestions)
                      THEN "returned" ELSE "pending",
        tailoredResume |->
          ApplySuggestion(result.tailoredResume, call.suggestions[Len(result.passes)]),
        passes |->
          Append(result.passes,
                 ApplySuggestion(result.tailoredResume,
                                 call.suggestions[Len(result.passes)]))]
  /\ UNCHANGED <<call, exec>>

\* compareOptimizationStrategies up to Promise.all of its three runs
CompareOptimizationStrategies ==
  /\ Idle
  /\ \E resumeText \in BatchResumeTexts, jobDescription \in BatchJobDescriptions :
       /\ call' = [op |-> "compareOptimizationStrategies", resumeText |-> resumeText,
                   jobDescription |-> jobDescription]
       /\ result' = [outcome |-> "pending",
                     runs |-> [i \in 1..3 |->
                                 CreatedRun(StrategyRequests(resumeText, jobDescription)[i])],
                     order |-> << >>,
                     compared |-> NothingYet]
  /\ UNCHANGED exec

\* two requests arrive while the singletons serve
ServeConcurrently ==
  /\ Idle
  /\ \E first \in ConcurrentRequests, second \in ConcurrentRequests :
       /\ call' = [op |-> "concurrentRequests"]
       /\ result' = [outcome |-> "pending",
                     runs |-> <<CreatedRun(first), CreatedRun(second)>>,
                     order |-> << >>,
                     compared |-> NothingYet]
  /\ UNCHANGED exec

Overlapping == call.op \in {"compareOptimizationStrategies", "concurrentRequests"}

\* a run is called and goes on to its first await, or to its rejection
StartRun ==
  /\ Overlapping
  /\ result.outcome = "pending"
  /\ \E i \in 1..Len(result.runs) :
       /\ result.runs[i].pc = "created"
       /\ result' = [result EXCEPT !.runs[i] = StartedRun(result.runs[i].request),
                                   !.order = Append(result.order, i)]
  /\ UNCHANGED <<call, exec>>

\* the event loop takes up a suspended run, which goes on to its end
ResumeRun ==
  /\ Overlapping
  /\ result.outcome = "pending"
  /\ \E i \in 1..Len(result.runs) :
       /\ result.runs[i].pc = "awaiting"
       /\ result' = [result EXCEPT !.runs[i] = Resumption(result.runs, result.order, i)]
  /\ UNCHANGED <<call, exec>>

\* every run is settled: compareOptimizationStrategies goes on after
\* Promise.all; two separate requests are simply both answered
AllSettled ==
  /\ Overlapping
  /\ result.outcome = "pending"
  /\ \A i \in 1..Len(result.runs) : result.runs[i].pc = "settled"
  /\ result' =
       IF call.op = "compareOptimizationStrategies"
         THEN With(ComparedStrategies(result.runs[1].value, result.runs[2].value,
                                      result.runs[3].value), LAMBDA compared :
                [result EXCEPT !.outcome = compared.outcome, !.compared = compared])
         ELSE [result EXCEPT !.outcome = "returned"]
  /\ UNCHANGED <<call, exec>>

FallbackSkillMatching ==
  /\ Idle
  /\ \E candidateSkills \in SkillLists, jobRequirements \in SkillLists :
       /\ call' = [op |-> "fallbackSkillMatching",
                   data |-> [candidateSkills |-> candidateSkills,
                             jobRequirements |-> jobRequirements]]
       /\ result' = fallbackSkillMatching(call'.data)
  /\ UNCHANGED exec

\* batchOptimize up to its loop
BatchOptimize ==
  /\ Idle
  /\ \E resumeText \in BatchResumeTexts, jobDescriptions \in JobDescriptionLists :
       /\ call' = [op |-> "batchOptimize", resumeText |-> resumeText,
                   jobDescriptions |-> jobDescriptions]
       /\ result' = [outcome |-> IF jobDescriptions = << >> THEN "returned" ELSE "pending",
                     results |-> << >>]
  /\ UNCHANGED exec

\* batchOptimizeResumes up to its loop
BatchOptimizeResumes ==
  /\ Idle
  /\ \E resumeText \in BatchResumeTexts, jobDescriptions \in JobLists :
       /\ call' = [op |-> "batchOptimizeResumes", resumeText |-> resumeText,
                   jobDescriptions |-> jobDescriptions]
       /\ result' = [outcome |-> IF jobDescriptions = << >> THEN "returned" ELSE "pending",
                     results |-> << >>]
  /\ UNCHANGED exec

\* one pass of the loop of either batch, and the return after the last
OptimizeNextJob ==
  /\ call.op \in {"batchOptimize", "batchOptimizeResumes"}
  /\ result.outcome = "pending"
  /\ result' =
       [outcome |-> IF Len(result.results) + 1 = Len(call.jobDescriptions)
                      THEN "returned" ELSE "pending",
        results |->
          Append(result.results,
                 IF call.op = "batchOptimize"
                   THEN batchOptimizeEntry(JobIndex(result.results), call.resumeText,
                          call.jobDescriptions[Len(result.results) + 1])
                   ELSE batchOptimizeResumesEntry(JobIndex(result.results),
                          call.resumeText,
                          call.jobDescriptions[Len(result.results) + 1]))]
  /\ UNCHANGED <<call, exec>>

ExecuteBatch ==
  /\ Idle
  /\ \E requests \in BatchRequestLists :
       /\ call' = [op |-> "executeBatch", requests |-> requests]
       /\ result' = [outcome |-> "returned", results |-> executeBatch(requests)]
  /\ UNCHANGED exec

PostAnalyze ==
  /\ Idle
  /\ \E body \in Bodies :
       /\ call' = [op |-> "POST /api/analyze", body |-> body]
       /\ result' = postAnalyze(body)
  /\ UNCHANGED exec

PostOptimize ==
  /\ Idle
  /\ \E body \in Bodies :
       /\ call' = [op |-> "POST /api/optimize", body |-> body]
       /\ result' = postOptimize(body)
  /\ UNCHANGED exec

PostPreview ==
  /\ Idle
  /\ \E body \in Bodies :
       /\ call' = [op |-> "POST /api/preview", body |-> body]
       /\ result' = postPreview(body)
  /\ UNCHANGED exec

GetOptimizationPreview ==
  /\ Idle
  /\ \E resumeText \in BatchResumeTexts, jobDescription \in BatchJobDescriptions :
       /\ call' = [op |-> "getOptimizationPreview", resumeText |-> resumeText,
                   jobDescription |-> jobDescription]
       /\ result' = getOptimizationPreview(resumeText, jobDescription)
  /\ UNCHANGED exec

\* the preview as a function of the resume and the keywords of the analysis
PreviewOfKeywords ==
  /\ Idle
  /\ \E resumeText \in ResumeTexts, keywords \in PreviewKeywordLists :
       /\ call' = [op |-> "previewOfKeywords", resumeText |-> resumeText,
                   keywords |-> keywords]
       /\ result' = PreviewOf(resumeText, keywords)
  /\ UNCHANGED exec

ExtractKeywords ==
  /\ Idle
  /\ \E text \in KeywordTexts :
       /\ call' = [op |-> "extractKeywords", text |-> text]
       /\ result' = [outcome |-> "returned", keywords |-> extractKeywords(text)]
  /\ UNCHANGED exec

\* extractKeywords of what extractKeywords returned, joined by single spaces
ExtractKeywordsOfKeywords ==
  /\ call.op = "extractKeywords"
  /\ result.outcome = "returned"
  /\ call' = [op |-> "extractKeywords of keywords",
              text |-> JoinWith(result.keywords, <<" ">>),
              keywords |-> result.keywords]
  /\ result' = [outcome |-> "returned",
                keywords |-> extractKeywords(JoinWith(result.keywords, <<" ">>))]
  /\ UNCHANGED exec

\* analyzeKeywordImportance: the entries in the order of the keywords, the
\* order its sort gives them left out; the SyntaxError of a keyword that is
\* no regular expression leaves the function
AnalyzeKeywordImportance ==
  /\ Idle
  /\ \E keywords \in ImportanceKeywordLists, context \in ImportanceContexts :
       /\ call' = [op |-> "analyzeKeywordImportance", keywords |-> keywords,
                   context |-> context]
       /\ result' = IF \E i \in 1..Len(keywords) : KeywordRegexThrows(keywords[i])
                      THEN Thrown("SyntaxError: Invalid regular expression")
                      ELSE [outcome |-> "returned",
                            analysis |-> analyzeKeywordImportance(keywords, context)]
  /\ UNCHANGED exec

NextScore == ScoreResume \/ AnalyzeResume \/ OverallOfBreakdown \/ Return
SpecScore == Init /\ [][NextScore]_vars

NextJob ==
  AnalyzeJobPosting \/ ManagerAnalyzeJobPosting \/ ExtractHeadings \/ ExtractDetails
  \/ Return
SpecJob == Init /\ [][NextJob]_vars

NextTailor ==
  TailorResume \/ ApplyOptimizationLevel \/ OptimizeResumeForJob \/ OptimizeResumeAI
    \/ Return
SpecTailor == Init /\ [][NextTailor]_vars

NextOverlap ==
  CompareOptimizationStrategies \/ ServeConcurrently \/ StartRun \/ ResumeRun
    \/ AllSettled \/ Return
SpecOverlap == Init /\ [][NextOverlap]_vars

NextApply == ApplyTailoringChanges \/ ApplyNextSuggestion \/ Return
SpecApply == Init /\ [][NextApply]_vars

NextWorkflow ==
  ExecuteWorkflow \/ MakeRequest \/ Delay \/ FallbackToLocal \/ FallbackSkillMatching
  \/ Return
SpecWorkflow == Init /\ [][NextWorkflow]_vars

NextBatch ==
  BatchOptimize \/ BatchOptimizeResumes \/ OptimizeNextJob \/ ExecuteBatch \/ Return
SpecBatch == Init /\ [][NextBatch]_vars

NextApi ==
  PostAnalyze \/ PostOptimize \/ PostPreview \/ GetOptimizationPreview
  \/ PreviewOfKeywords \/ Return
SpecApi == Init /\ [][NextApi]_vars

NextKeywords ==
  ExtractKeywords \/ ExtractKeywordsOfKeywords \/ AnalyzeKeywordImportance \/ Return
SpecKeywords == Init /\ [][NextKeywords]_vars

Next ==
  NextScore \/ NextJob \/ NextTailor \/ NextWorkflow \/ NextBatch \/ NextApi
    \/ NextApply \/ NextOverlap
    \/ NextKeywords
Spec == Init /\ [][Next]_vars

(***************************************************************************)
(* Properties of the scorer                                                *)
(***************************************************************************)

ScoringCall == call.op \in {"calculateATSScore", "analyzeResume"}
Scored == ScoringCall /\ result.outcome = "returned"
GivenKeywords ==
  IF call.op = "calculateATSScore" THEN call.jobKeywords
  ELSE IF call.targetRole # Undefined /\ call.targetRole # << >>
    THEN <<call.targetRole>> ELSE << >>

\* C1: for every resume text and keyword list, the overall score and each of
\* the five sub-scores of calculateATSScore lie in 0..100.
C1_ScoresWithinRange ==
  Scored =>
    /\ result.score \in 0..100
    /\ result.breakdown.keywordMatch \in 0..100
    /\ result.breakdown.formatScore \in 0..100
    /\ result.breakdown.contentScore \in 0..100
    /\ result.breakdown.lengthScore \in 0..100
    /\ result.breakdown.structureScore \in 0..100

\* the only scores C1 loses are those of keyword lists holding a name every
\* object inherits
ScoresWithinRangeUnlessInheritedKey ==
  (Scored /\ \A i \in 1..Len(GivenKeywords) :
               ToLowerCase(GivenKeywords[i]) \notin InheritedKeys)
    => C1_ScoresWithinRange

\* C2: the overall score is the weighted sum 0.40 keywordMatch + 0.25
\* contentScore + 0.15 structureScore + 0.10 formatScore + 0.10 lengthScore
\* rounded to the nearest integer (half up), and the weights sum to 1.
C2_OverallIsRoundedWeightedSum ==
  (result.outcome = "returned"
     /\ call.op \in {"calculateATSScore", "analyzeResume", "calculateOverallScore"})
  => LET b == result.breakdown
         sum100 == 40 * b.keywordMatch + 25 * b.contentScore
                   + 15 * b.structureScore + 10 * b.formatScore
                   + 10 * b.lengthScore
     IN /\ 40 + 25 + 15 + 10 + 10 = 100
        /\ b.keywordMatch # NaN =>
             /\ 100 * result.score - 50 <= sum100
             /\ sum100 < 100 * result.score + 50
        /\ b.keywordMatch = NaN => result.score = NaN

\* a scored resume whose weighted sum is no whole number, and is rounded up
C2_Witness ==
  /\ Scored
  /\ result.breakdown.keywordMatch # NaN
  /\ LET b == result.breakdown
     IN (40 * b.keywordMatch + 25 * b.contentScore + 15 * b.structureScore
         + 10 * b.formatScore + 10 * b.lengthScore) % 100 >= 50

\* C3: passesATS is true exactly when the overall score is at least 70.
C3_PassesIffSeventy ==
  Scored => (result.passesATS <=> (result.score # NaN /\ result.score >= 70))

C3_Witness ==
  /\ Scored
  /\ result.score = 70
  /\ result.passesATS

\* C4: with an empty job keyword list the keywordMatch sub-score is 100,
\* whatever the resume text, the empty resume included.
C4_NoKeywordsFullMatch ==
  (Scored /\ GivenKeywords = << >>) => result.breakdown.keywordMatch = 100

C4_Witness ==
  /\ call.op = "calculateATSScore"
  /\ call.jobKeywords = << >>
  /\ call.resumeText = << >>
  /\ result.outcome = "returned"
  /\ result.breakdown.keywordMatch = 100

\* C6: calculateATSScore and analyzeResume never throw for well-typed input,
\* a target role holding '+', '(' or '[' included.
C6_ScoringNeverThrows ==
  ScoringCall => result.outcome # "threw"

(***************************************************************************)
(* Properties of the job analyzer                                          *)
(***************************************************************************)

AnalyzerCall == call.op \in {"analyzeJobPosting", "AIWorkflowManager.analyzeJobPosting"}

\* C5: analyzeJobPosting returns a JobAnalysisResult and never throws, for
\* every string input, the empty one included; a field no pattern matches
\* holds its sentinel, which makes each of the three fields a non-empty text.
C5_AnalysisNeverThrows ==
  AnalyzerCall =>
    /\ result.outcome = "returned"
    /\ result.jobTitle # << >>
    /\ result.company # << >>
    /\ result.location # << >>

\* the extractors themselves give the sentinels for a text no pattern matches
SentinelsWhenNothingMatches ==
  (call.op = "extractHeadings" /\ call.jobText \in {<< >>, <<"h","i">>})
    => /\ result.jobTitle = TitleNotFound
       /\ result.company = CompanyNotSpecified
       /\ result.location = LocationNotSpecified

(***************************************************************************)
(* Properties of tailoring and optimization                                *)
(***************************************************************************)

\* the number of the job keywords that analyzeKeywordMatches finds in a text
MatchedKeywordCount(text, jobKeywords) ==
  Len(SelectSeq(analyzeKeywordMatches(jobKeywords, extractKeywords(text), text),
                LAMBDA km : km.inResume))

TailoringNeverLowersScore ==
  (call.op = "tailorResume" /\ result.outcome = "returned")
    => NumGe(result.atsScore, result.originalScore)

\* C8: tailoring never decreases keyword coverage: the tailored resume that
\* tailorResume returns matches at least as many of the job keywords as the
\* original resume.
C8_TailoringKeepsKeywordCoverage ==
  (call.op = "tailorResume" /\ result.outcome = "returned")
    => MatchedKeywordCount(result.tailoredResume, extractKeywords(call.jobDescription))
       >= MatchedKeywordCount(call.resumeText, extractKeywords(call.jobDescription))

\* the impacts the level lets through, as the specification states them
WithinLevel(optimizationLevel, impact) ==
  CASE optimizationLevel = "basic" -> impact > 12 /\ impact < 20
    [] optimizationLevel = "standard" -> impact > 8
    [] OTHER -> TRUE

\* C9: the optimization level is a filter: with 'basic' and 'standard' the
\* text a suggestion outside the level's filter puts in is absent from the
\* optimized resume, unless the original resume held that text already.
C9_LevelFiltersSuggestions ==
  (call.op = "applyOptimizationLevel" /\ call.optimizationLevel \in {"basic", "standard"})
    => \A i \in 1..Len(call.suggestions) :
         (/\ ~WithinLevel(call.optimizationLevel, call.suggestions[i].impact)
          /\ ~Includes(call.originalResume, call.suggestions[i].suggested))
           => ~Includes(result.optimizedResume, call.suggestions[i].suggested)

(***************************************************************************)
(* Properties of the workflow executor                                     *)
(***************************************************************************)

\* an executeWorkflow call with default options whose input passed validation
DefaultExecution ==
  /\ call.op = "executeWorkflow"
  /\ call.retriesOption = << >>
  /\ call.workflowId \in WorkflowIds
  /\ call.dataValid

\* C10: in an executeWorkflow call with default options and valid input, at
\* most 3 requests are made; the call waits 1000 ms after the first failure
\* and 2000 ms after the second and not after the third; a successful
\* request ends the call with success = true, every earlier request having
\* failed; the local fallback is entered only after 3 failed requests.
C10_RetryThenFallback ==
  DefaultExecution =>
    /\ exec.requests <= 3
    /\ exec.failures <= exec.requests
    /\ Len(exec.delays) <= 2
    /\ exec.delays = SubSeq(<<1000, 2000>>, 1, Len(exec.delays))
    /\ Len(exec.delays) = (IF exec.pc = "delay" THEN exec.failures - 1
                           ELSE Min(exec.failures, 2))
    /\ (exec.pc = "delay" => exec.failures <= 2)
    /\ (exec.pc = "request" => exec.requests = exec.failures)
    /\ (result.outcome = "returned" /\ result.by = "n8n")
         => /\ result.success
            /\ exec.pc = "done"
            /\ exec.requests = exec.failures + 1
    /\ (exec.pc = "fallback" \/ (result.outcome = "returned" /\ result.by # "n8n"))
         => /\ exec.failures = 3
            /\ exec.requests = 3
            /\ exec.delays = <<1000, 2000>>

\* the fallback has answered after three failed requests and the two waits
C10_Witness ==
  /\ DefaultExecution
  /\ exec.pc = "done"
  /\ result.outcome = "returned"
  /\ result.by = "local"
  /\ exec.requests = 3
  /\ exec.delays = <<1000, 2000>>

\* the third request of a call succeeds, after both waits
SucceedsOnLastAttempt ==
  /\ DefaultExecution
  /\ result.outcome = "returned"
  /\ result.by = "n8n"
  /\ exec.requests = 3

\* C11: an integration error of executeWorkflow for a known workflow, the
\* input that violates the workflow's input schema included, is never thrown
\* to the caller: the call ends with a response.
C11_ErrorsNeverPropagate ==
  (call.op = "executeWorkflow" /\ call.workflowId \in WorkflowIds)
    => result.outcome # "threw"

\* what does hold: once the input has passed validateInput, no failure of a
\* request is thrown
RequestErrorsNeverPropagate ==
  (call.op = "executeWorkflow" /\ call.workflowId \in WorkflowIds /\ call.dataValid)
    => result.outcome # "threw"

(***************************************************************************)
(* Properties: optimizeResumeAI                                            *)
(***************************************************************************)

\* the request of a call of optimizeResumeAI, as the function destructures it
RequestOf(c) ==
  [resumeText |-> c.resumeText, jobDescription |-> c.jobDescription,
   optimizationLevel |-> IF c.optimizationLevel = "undefined"
                           THEN "standard" ELSE c.optimizationLevel]

\* C12: when the external workflow call of optimizeResumeAI fails, the call
\* returns what the local pipeline resumeOptimizer.optimizeResume(request)
\* returns: a result with the same optimizedResume and the same before and
\* after scores.
C12_FailedWorkflowGivesLocalResult ==
  (call.op = "optimizeResumeAI" /\ ~call.reply.success)
    => /\ result.outcome = "returned"
       /\ optimizeResume(RequestOf(call)).outcome = "returned"
       /\ result.optimizedResume = optimizeResume(RequestOf(call)).optimizedResume
       /\ result.improvements.beforeScore
            = optimizeResume(RequestOf(call)).improvements.beforeScore
       /\ result.improvements.afterScore
            = optimizeResume(RequestOf(call)).improvements.afterScore

\* what does hold: every call of optimizeResumeAI ends as the local pipeline
\* ends on the same request, which is by throwing
AIPathEndsAsLocalPipeline ==
  call.op = "optimizeResumeAI" => result = optimizeResume(RequestOf(call))

(***************************************************************************)
(* Properties: batch operations                                            *)
(***************************************************************************)

BatchCall == call.op \in {"batchOptimize", "batchOptimizeResumes"}

\* the job at a position of the running batch fails: its optimization throws
JobFails(k) ==
  IF call.op = "batchOptimize"
    THEN quickOptimize(call.resumeText, call.jobDescriptions[k]).outcome = "threw"
    ELSE optimizeResumeForJob(call.resumeText, call.jobDescriptions[k].description,
                              "standard").outcome = "threw"

\* the entry the batch of this one job alone has for it
EntryOfJobAlone(k) ==
  IF call.op = "batchOptimize"
    THEN batchOptimizeEntry(0, call.resumeText, call.jobDescriptions[k])
    ELSE batchOptimizeResumesEntry(0, call.resumeText, call.jobDescriptions[k])

BatchOfRejectedAndFulfilled ==
  /\ call.op = "executeBatch"
  /\ Len(result.results) = 2
  /\ ~result.results[1].success
  /\ result.results[2].success

\* no job of a batch can succeed, its analyzeJobPosting throwing
EveryJobFails == BatchCall => \A k \in 1..Len(result.results) : JobFails(k)

(***************************************************************************)
(* Properties: API routes                                                  *)
(***************************************************************************)

\* a POST whose body is a JSON object
PostOf(route) == call.op = route /\ call.body.json = "object"

\* C14: a POST whose body lacks a required field, or has the empty string
\* for it, is answered with status 400 and the route's fixed error, and the
\* workflow manager is not called: resumeText for /api/analyze ('Resume text
\* is required'), resumeText and jobDescription for /api/optimize and
\* /api/preview.
C14_MissingFieldIs400 ==
  /\ (PostOf("POST /api/analyze") /\ Falsy(call.body.resumeText))
       => /\ result.status = 400
          /\ result.error = "Resume text is required"
          /\ ~result.managerInvoked
  /\ ((PostOf("POST /api/optimize") \/ PostOf("POST /api/preview"))
        /\ (Falsy(call.body.resumeText) \/ Falsy(call.body.jobDescription)))
       => /\ result.status = 400
          /\ result.error = "Resume text and job description are required"
          /\ ~result.managerInvoked

\* /api/optimize has refused a body with a resume and no job description
C14_Witness ==
  /\ PostOf("POST /api/optimize")
  /\ ~Falsy(call.body.resumeText)
  /\ call.body.jobDescription = Undefined
  /\ result.status = 400

\* /api/analyze has refused the body {}
AnalyzeOfEmptyBody ==
  /\ PostOf("POST /api/analyze")
  /\ call.body.resumeText = Undefined
  /\ result.status = 400

\* the optimization pipeline, resumeOptimizer.optimizeResume, on the request
\* the manager makes of a body
PipelineOf(body) ==
  optimizeResume([resumeText |-> body.resumeText,
                  jobDescription |-> body.jobDescription,
                  optimizationLevel |-> IF body.optimizationLevel = "undefined"
                                          THEN "standard" ELSE body.optimizationLevel])

\* the pipeline fails on the body of a POST /api/optimize that passed the
\* validation
PipelineFails ==
  /\ PostOf("POST /api/optimize")
  /\ ~OptimizeRefuses(call.body)
  /\ PipelineOf(call.body).outcome = "threw"

\* C15: when the optimization pipeline fails with an error of message M
\* during POST /api/optimize, the response has status 500, the error
\* 'Optimization failed', and M as its message.
C15_FailureCarriesUnderlyingMessage ==
  PipelineFails
    => /\ result.status = 500
       /\ result.error = "Optimization failed"
       /\ result.message = PipelineOf(call.body).error

\* what does hold: the status, the generic error, and as the message the
\* fixed text the manager replaces every error with
FailureCarriesManagerMessage ==
  PipelineFails
    => /\ result.status = 500
       /\ result.error = "Optimization failed"
       /\ result.message = "Failed to optimize resume"

(***************************************************************************)
(* Properties: content and format deductions                               *)
(***************************************************************************)

\* the resume of the scoring call has a digit and a strong action verb, no
\* generic phrase and no 'skill', whatever the case
QuantifiedStrongUnskilled ==
  /\ \E i \in 1..Len(call.resumeText) : call.resumeText[i] \in Digits
  /\ \E v \in 1..Len(StrongActionVerbs) :
       Includes(ToLowerCase(call.resumeText), StrongActionVerbs[v])
  /\ ~\E g \in 1..Len(GenericPhrases) :
       Includes(ToLowerCase(call.resumeText), GenericPhrases[g])
  /\ ~Includes(ToLowerCase(call.resumeText), <<"s","k","i","l","l">>)

\* C16: a resume that has a digit and a listed strong action verb, no generic
\* phrase and no 'skill' gets the content score 80, the absence of 'skill'
\* deducting 20 points.
C16_NoSkillDeductsTwenty ==
  (Scored /\ QuantifiedStrongUnskilled) => result.breakdown.contentScore = 80

\* C16 as amended: the absence of 'skill' deducts 15 points, and the content
\* score of such a resume is 85.
C16_NoSkillDeductsFifteen ==
  (Scored /\ QuantifiedStrongUnskilled) => result.breakdown.contentScore = 85

\* a resume with a digit, a strong verb and no 'skill' has been scored
C16_Witness ==
  /\ Scored
  /\ QuantifiedStrongUnskilled
  /\ result.breakdown.contentIssues = <<"Missing skills section">>

\* the resume of the scoring call has 'experience' and 'education' but not
\* 'skills', and neither of the two other format issues
TwoOfThreeSections ==
  /\ Includes(ToLowerCase(call.resumeText), <<"e","x","p","e","r","i","e","n","c","e">>)
  /\ Includes(ToLowerCase(call.resumeText), <<"e","d","u","c","a","t","i","o","n">>)
  /\ ~Includes(ToLowerCase(call.resumeText), <<"s","k","i","l","l","s">>)
  /\ \A i \in 1..Len(result.breakdown.formatIssues) :
       result.breakdown.formatIssues[i]
         \notin {"Inconsistent spacing", "Unusual characters found"}

\* C17: a resume that has 'experience' and 'education' but not 'skills', and
\* no other format issue, gets the format score 80, a missing section marker
\* deducting 20 points.
C17_MissingOneSectionDeductsTwenty ==
  (Scored /\ TwoOfThreeSections) => result.breakdown.formatScore = 80

\* what does hold: one marker of the three is enough for no deduction
OneSectionIsEnough ==
  (Scored /\ TwoOfThreeSections) => result.breakdown.formatScore = 100

(***************************************************************************)
(* Properties: keyword extraction and importance                           *)
(***************************************************************************)

\* extractKeywords has been applied to the joined keywords of an earlier call
Reextracted == call.op = "extractKeywords of keywords"

\* C18: extractKeywords of the keywords of a text, joined by single spaces,
\* returns the same set of keywords: none is lost and none is new.
C18_ExtractionIsIdempotent ==
  Reextracted => Range(result.keywords) = Range(call.keywords)

\* C18 as amended: no keyword is lost; the keywords of the join can have
\* more, a listed phrase that two keywords form next to each other.
C18_NoKeywordIsLost ==
  Reextracted => Range(call.keywords) \subseteq Range(result.keywords)

\* 'code review' is new among the keywords of 'code review', the keywords of
\* a text with a stop word in between
C18_Witness ==
  /\ Reextracted
  /\ call.keywords = <<<<"c","o","d","e">>, <<"r","e","v","i","e","w">>>>
  /\ result.keywords = <<<<"c","o","d","e"," ","r","e","v","i","e","w">>, <<"c","o","d","e">>, <<"r","e","v","i","e","w">>>>

\* the importances of a returned analysis, each ten times the number the
\* function returns
Importances ==
  {result.analysis[i].importance : i \in 1..Len(result.analysis)}

Analyzed == call.op = "analyzeKeywordImportance" /\ result.outcome = "returned"

\* C19: every importance analyzeKeywordImportance returns is an integer
\* from 0 to 15.
C19_ImportanceIsIntegerUpToFifteen ==
  Analyzed => Importances \subseteq {10 * n : n \in 0..15}

\* what does hold: an importance is at most 15 and at least the default 5,
\* unless it is NaN
ImportanceCappedUnlessNaN ==
  Analyzed => Importances \subseteq (50..150) \cup {NaN}

\* 'javascript' is among the keywords, once in the context, and the context
\* has none of 'required', 'must', 'essential', 'years'
JavascriptOnceUnqualified ==
  /\ Analyzed
  /\ \E i \in 1..Len(call.keywords) : call.keywords[i] = <<"j","a","v","a","s","c","r","i","p","t">>
  /\ RegexCount(<<"j","a","v","a","s","c","r","i","p","t">>, ToLowerCase(call.context)) = 1
  /\ \A word \in {<<"r","e","q","u","i","r","e","d">>, <<"m","u","s","t">>, <<"e","s","s","e","n","t","i","a","l">>, <<"y","e","a","r","s">>} :
       ~Includes(ToLowerCase(call.context), word)

\* C20: the importance of 'javascript', once in a context without qualifying
\* word, is the default 5.
C20_JavascriptHasDefaultImportance ==
  JavascriptOnceUnqualified =>
    \A i \in 1..Len(call.keywords) :
       call.keywords[i] = <<"j","a","v","a","s","c","r","i","p","t">> => result.analysis[i].importance = 10 * 5

\* C20 as amended: it is 10, the weight of 'javascript' in
\* KEYWORD_WEIGHTS.technical.
C20_JavascriptHasItsWeight ==
  JavascriptOnceUnqualified =>
    \A i \in 1..Len(call.keywords) :
       call.keywords[i] = <<"j","a","v","a","s","c","r","i","p","t">> => result.analysis[i].importance = 10 * 10

C20_Witness ==
  /\ JavascriptOnceUnqualified
  /\ call.keywords = <<<<"j","a","v","a","s","c","r","i","p","t">>>>
  /\ call.context = <<"J","a","v","a","S","c","r","i","p","t"," ","d","e","v","e","l","o","p","e","r">>

(***************************************************************************)
(* Properties of salary and requirement extraction                         *)
(***************************************************************************)

\* the salary text of the spec's scenario and the salary it expects
ScenarioSalaryText == <<"$","1","2","0",",","0","0","0"," ","-"," ","$","1","6","0",",","0","0","0"," ",
        "p","e","r"," ","y","e","a","r">>
ScenarioSalary ==
  [min |-> 120000, max |-> 160000, currency |-> "USD", period |-> "yearly"]

\* C21: analyzeJobPosting on a job text that contains the salary text
\* '$120,000 - $160,000 per year' returns a result whose salary is
\* {min: 120000, max: 160000, currency: 'USD', period: 'yearly'}.
C21_ScenarioSalaryIsExtracted ==
  (call.op = "analyzeJobPosting" /\ Includes(call.jobText, ScenarioSalaryText))
    => /\ result.outcome = "returned"
       /\ result.salary = ScenarioSalary

\* the salary extractor itself, on the cleaned text of the scenario, finds no
\* salary: cleanJobText has taken the dollar signs away
ScenarioSalaryIsLostInCleaning ==
  (call.op = "extractDetails" /\ call.jobText = ScenarioSalaryText)
    => result.salary = Undefined

\* the third pattern, which needs no dollar sign, does give a salary
ThousandsSalaryIsExtracted ==
  (call.op = "extractDetails" /\ call.jobText = <<"P","a","y"," ","1","2","0","k"," ","-"," ","1","6","0","K">>)
    => result.salary = ScenarioSalary

\* a posting of a header line that holds 'requirements' or 'qualifications'
\* and, under it, bulleted or numbered lines only
HeaderThenItems(jobText) ==
  With(SplitChar(jobText, "\n"), LAMBDA lines :
    /\ Len(lines) >= 2
    /\ \/ Includes(ToLowerCase(lines[1]), <<"r","e","q","u","i","r","e","m","e","n","t","s">>)
       \/ Includes(ToLowerCase(lines[1]), <<"q","u","a","l","i","f","i","c","a","t","i","o","n","s">>)
    /\ \A n \in 2..Len(lines) : lineRequirements(lines[n], "required") # << >>)

\* the priority the header of a section stands for
HeaderPriority(header) ==
  IF Includes(ToLowerCase(header), <<"b","o","n","u","s">>) \/ Includes(ToLowerCase(header), <<"p","l","u","s">>)
    THEN "nice-to-have"
  ELSE IF Includes(ToLowerCase(header), <<"p","r","e","f","e","r","r","e","d">>) THEN "preferred"
  ELSE "required"

\* C22: for a posting of several lines, a header line holding 'requirements'
\* or 'qualifications' and bulleted or numbered lines under it,
\* analyzeJobPosting returns a non-empty requirements list, one
\* JobRequirement per such line, each with the priority of the header
\* ('preferred' -> preferred, 'bonus'/'plus' -> nice-to-have, else required).
C22_RequirementPerListedLine ==
  (call.op = "analyzeJobPosting" /\ HeaderThenItems(call.jobText))
    => /\ result.outcome = "returned"
       /\ Len(result.requirements) = Len(SplitChar(call.jobText, "\n")) - 1
       /\ \A n \in 1..Len(result.requirements) :
            result.requirements[n].priority
              = HeaderPriority(Head(SplitChar(call.jobText, "\n")))

\* the requirements extractor itself finds nothing in such a posting:
\* cleanJobText has joined its lines into one, which opens with the header
RequirementsAreLostInCleaning ==
  (call.op = "extractDetails" /\ HeaderThenItems(call.jobText))
    => result.requirements = << >>

\* a text that opens with an item mark and holds a header word is one
\* requirement as a whole
WholeTextIsOneRequirement ==
  (call.op = "extractDetails"
     /\ call.jobText = <<"-"," ","3","+"," ","y","e","a","r","s"," ","o","f"," ","P","y","t","h","o","n",
        " ","e","x","p","e","r","i","e","n","c","e","\n","R","e","q","u","i","r","e","m",
        "e","n","t","s",":">>)
    => /\ Len(result.requirements) = 1
       /\ result.requirements[1].requirement
            = <<"y","e","a","r","s"," ","o","f"," ","P","y","t","h","o","n"," ","e","x","p","e",
        "r","i","e","n","c","e"," ","R","e","q","u","i","r","e","m","e","n","t","s">>
       /\ result.requirements[1].priority = "required"

(***************************************************************************)
(* Properties of the optimization preview                                  *)
(***************************************************************************)

\* currentScore <= projectedScore <= 100, projectedScore is
\* min(currentScore + estimatedImpact, 100), estimatedImpact is three times
\* the number of missing keywords returned, and these are five at most
PreviewIsSound(preview) ==
  /\ NumGe(preview.projectedScore, preview.currentScore)
  /\ NumGe(100, preview.projectedScore)
  /\ preview.projectedScore
       = NumMin(NumAdd(preview.currentScore, preview.estimatedImpact), 100)
  /\ preview.estimatedImpact = 3 * Len(preview.missingKeywords)
  /\ Len(preview.missingKeywords) <= 5

\* C23: getOptimizationPreview never projects a lower score: it returns a
\* preview with currentScore <= projectedScore <= 100, projectedScore =
\* min(currentScore + estimatedImpact, 100), and estimatedImpact = 3 * the
\* number of returned missingKeywords, of which there are at most five.
C23_PreviewNeverProjectsLower ==
  call.op = "getOptimizationPreview"
    => result.outcome = "returned" /\ PreviewIsSound(result)

\* every call of getOptimizationPreview ends in the replaced error
PreviewAlwaysFails ==
  call.op = "getOptimizationPreview"
    => result = Thrown("Failed to generate optimization preview")

\* the arithmetic after the job analysis is sound whenever the score is a number
PreviewIsSoundForNumbers ==
  (call.op = "previewOfKeywords" /\ result.outcome = "returned"
     /\ ~IsNaN(result.currentScore))
    => PreviewIsSound(result)

\* a keyword that is a key of Object.prototype makes both scores NaN
PreviewOfInheritedKeyIsNaN ==
  (call.op = "previewOfKeywords" /\ call.keywords = <<<<"c","o","n","s","t","r","u","c","t","o","r">>>>)
    => /\ result.outcome = "returned"
       /\ IsNaN(result.currentScore)
       /\ IsNaN(result.projectedScore)

\* seven missing keywords are previewed as five, for 15 points
PreviewListsFiveKeywords ==
  (call.op = "previewOfKeywords" /\ Len(call.keywords) = 7 /\ call.resumeText = << >>)
    => /\ Len(result.missingKeywords) = 5
       /\ result.estimatedImpact = 15

(***************************************************************************)
(* Properties of the local skill matching                                  *)
(***************************************************************************)

\* C24: all scores are clamped to [0, 100], the matchScore of the local
\* skill-matching fallback included: for every list of candidate skills and
\* every list of job requirements, fallbackSkillMatching returns a matchScore
\* from 0 to 100.
C24_MatchScoreWithinRange ==
  call.op = "fallbackSkillMatching"
    => result.outcome = "returned" /\ result.matchScore \in 0..100

\* the score stays in the range when the candidate has no more skills than
\* the job has requirements, and is never negative
MatchScoreWithinRangeOfFewSkills ==
  (call.op = "fallbackSkillMatching"
     /\ Len(call.data.candidateSkills) <= Len(call.data.jobRequirements))
    => result.matchScore \in 0..100

\* two skills that both name the one requirement score 200
TwoSkillsOfOneRequirementScoreDouble ==
  (call.op = "fallbackSkillMatching"
     /\ call.data = [candidateSkills |-> <<<<"P","y","t","h","o","n">>, <<"p","y">>>>,
                     jobRequirements |-> <<<<"p","y","t","h","o","n">>>>])
    => result.matchScore = 200

(***************************************************************************)
(* Properties of the frequency boost                                       *)
(***************************************************************************)

\* the number of times keyword i of the call occurs in the context
FrequencyOf(i) == RegexCount(ToLowerCase(call.keywords[i]), ToLowerCase(call.context))

\* the importance of keyword i, times ten, with the given boost under the cap
BoostedBy(i, boost) ==
  result.analysis[i].importance
    = Min(ScoreBeforeFrequency(ToLowerCase(call.keywords[i]),
                               KEYWORD_WEIGHTS(categorizeKeyword(call.keywords[i])),
                               ToLowerCase(call.context))
          + 10 * boost,
          150)

\* C25: in analyzeKeywordImportance, a keyword that occurs f times in the
\* context, f >= 2, receives a frequency boost of min(f - 1, 3) (f = 2 gives
\* +1, f = 3 gives +2, f >= 4 gives +3), applied before the cap at 15.
C25_RepeatedKeywordIsBoosted ==
  Analyzed =>
    \A i \in 1..Len(call.keywords) :
       (FrequencyOf(i) >= 2 /\ ~IsNaN(result.analysis[i].importance))
         => BoostedBy(i, Min(FrequencyOf(i) - 1, 3))

\* from three occurrences on the boost is the claimed one
ThreeOccurrencesAreBoosted ==
  Analyzed =>
    \A i \in 1..Len(call.keywords) :
       (FrequencyOf(i) >= 3 /\ ~IsNaN(result.analysis[i].importance))
         => BoostedBy(i, Min(FrequencyOf(i) - 1, 3))

\* a keyword that occurs twice gets no boost
TwoOccurrencesAreNotBoosted ==
  Analyzed =>
    \A i \in 1..Len(call.keywords) :
       (FrequencyOf(i) = 2 /\ ~IsNaN(result.analysis[i].importance)) => BoostedBy(i, 0)

\* 'python', of weight 10, twice in the context
PythonTwiceIsTen ==
  (Analyzed /\ call.keywords = <<<<"p","y","t","h","o","n">>>> /\ call.context = <<"P","y","t","h","o","n"," ","a","n","d"," ","p","y","t","h","o","n">>)
    => result.analysis[1].importance = 10 * 10

(***************************************************************************)
(* Properties: optimizeResumeAI with an available service                  *)
(***************************************************************************)

\* C26: when the workflow service answers every request successfully,
\* optimizeResumeAI returns the service's enhanced resume as optimizedResume,
\* at every optimization level ('aggressive', with its cover-letter workflow,
\* included): its inputs satisfy the input schemas and its workflow ids
\* exist, so that it does not fall back to the local pipeline.
C26_AvailableServiceGivesEnhancedResume ==
  (call.op = "optimizeResumeAI" /\ call.reply.success
     /\ call.reply.enhancedResume # << >>)
    => /\ result.outcome = "returned"
       /\ result.processingMethod = "ai"
       /\ result.optimizedResume = call.reply.enhancedResume

\* the data of the enhancement call lacks fields the schema of
\* RESUME_ENHANCEMENT requires, so that validateInput refuses it whatever the
\* service would answer
EnhancementRequestIsRefused ==
  /\ RequiredFields("RESUME_ENHANCEMENT") \ EnhancementFields
       = {"resumeText", "targetKeywords"}
  /\ \A reply \in WorkflowReplies :
       executeWorkflow("RESUME_ENHANCEMENT", EnhancementFields, reply)
         = Thrown("Missing required field")

\* the workflow id of the cover-letter call is none of N8N_WORKFLOWS
CoverLetterWorkflowIsUnknown ==
  /\ "COVER_LETTER_GENERATION" \notin WorkflowIds
  /\ \A reply \in WorkflowReplies :
       executeWorkflow("COVER_LETTER_GENERATION", CoverLetterFields, reply)
         = Thrown("Unknown workflow")

(***************************************************************************)
(* applyTailoringChanges, pass by pass                                     *)
(***************************************************************************)

Applying == call.op = "applyTailoringChanges"

\* the passes of the forEach made so far
PassesMade == 1..(Len(result.passes) - 1)

SortedByImpact(suggestions) ==
  \A i \in 1..(Len(suggestions) - 1) : suggestions[i].impact >= suggestions[i + 1].impact

\* pass i met the original text of its suggestion
Applied(i) == Includes(result.passes[i], call.suggestions[i].original)

\* suggestion i is the first of the list with its original text
FirstOfItsOriginal(i) ==
  \A h \in 1..(i - 1) : call.suggestions[h].original # call.suggestions[i].original

\* the text before and after the first occurrence of original in text
BeforeFirst(text, original) == SubSeq(text, 1, IndexOf(text, original) - 1)
AfterFirst(text, original) ==
  SubSeq(text, IndexOf(text, original) + Len(original), Len(text))

\* after is before with the first occurrence of original replaced by the
\* characters of suggested, taken as they are
LiteralPass(before, after, suggestion) ==
  IF Includes(before, suggestion.original)
    THEN after = BeforeFirst(before, suggestion.original) \o suggestion.suggested
                 \o AfterFirst(before, suggestion.original)
    ELSE after = before

\* after is before with the first occurrence of original replaced by
\* suggested, in which $$, $&, $` and $' are replacement patterns
PatternPass(before, after, suggestion) ==
  IF Includes(before, suggestion.original)
    THEN after = BeforeFirst(before, suggestion.original)
                 \o ExpandDollar(suggestion.suggested, suggestion.original,
                                 BeforeFirst(before, suggestion.original),
                                 AfterFirst(before, suggestion.original))
                 \o AfterFirst(before, suggestion.original)
    ELSE after = before

\* the forEach visits every suggestion: it ends after the last one only
EverySuggestionVisited ==
  /\ Len(result.passes) <= Len(call.suggestions) + 1
  /\ result.outcome = "returned" <=> Len(result.passes) = Len(call.suggestions) + 1

DollarPatternIsExpanded ==
  /\ Applying
  /\ \E i \in PassesMade :
       /\ Applied(i)
       /\ ~LiteralPass(result.passes[i], result.passes[i + 1], call.suggestions[i])

\* suggestions of three different impacts are in the list
ThreeImpactsSorted ==
  /\ Applying
  /\ Cardinality({call.suggestions[i].impact : i \in 1..Len(call.suggestions)}) >= 3

(***************************************************************************)
(* keyword-density suggestions in the tailored text                        *)
(***************************************************************************)

HasAdvice(text) ==
  Includes(text, <<"R","e","d","u","c","e"," ","r","e","p","e","t","i","t","i","o","n"," ","o","f",
        " ">>) \/ Includes(text, <<"I","n","c","r","e","a","s","e"," ","u","s","a","g","e"," ","o","f"," ">>)

Tailored == call.op = "tailorResume" /\ result.outcome = "returned"

\* C28: the tailored resume text of tailorResume, and the optimizedResume
\* derived from it, never contains the advisory strings 'Reduce repetition
\* of ...' or 'Increase usage of ...' in place of resume content.
C28_NoAdviceInTailoredResume ==
  /\ Tailored => ~HasAdvice(result.tailoredResume)
  /\ (result.outcome = "returned" /\ "optimizedResume" \in DOMAIN result)
       => ~HasAdvice(result.optimizedResume)

\* the advice in a tailored text is the suggested text of a density
\* suggestion, whose original text is the keyword alone
AdviceComesFromDensitySuggestion ==
  (Tailored /\ HasAdvice(result.tailoredResume))
    => \E i \in 1..Len(result.suggestions) :
         /\ result.suggestions[i].section = <<"o","v","e","r","a","l","l">>
         /\ HasAdvice(result.suggestions[i].suggested)
         /\ Includes(call.resumeText, result.suggestions[i].original)

(***************************************************************************)
(* Properties of overlapping runs                                          *)
(***************************************************************************)

StrategiesSettledOutOfOrder ==
  /\ call.op = "compareOptimizationStrategies"
  /\ result.order = <<3, 1, 2>>
  /\ \A i \in 1..3 : result.runs[i].pc = "settled"

\* compareOptimizationStrategies has gone on after Promise.all
Compared == call.op = "compareOptimizationStrategies" /\ result.outcome # "pending"

\* C30: for a fixed resume and job description, optimizeResume returns the
\* same beforeScore, afterScore and improvement for all three levels, and so
\* compareOptimizationStrategies always returns the recommendation of the
\* basic optimization.
C30_StrategiesAgreeAndBasicIsRecommended ==
  Compared =>
    /\ result.compared.outcome = "returned"
    /\ result.compared.basic.improvements = result.compared.standard.improvements
    /\ result.compared.standard.improvements = result.compared.aggressive.improvements
    /\ result.compared.recommendation = "basic"

\* compareOptimizationStrategies rejects, as each of its three runs did
ComparisonAlwaysFails ==
  Compared =>
    /\ result.compared = Thrown("Optimization failed")
    /\ \A i \in 1..3 : result.runs[i].value = Thrown("Optimization failed")

\* what steps 2 to 7 of optimizeResume give at a level, for job keywords
\* that step 1 would have to supply
AtLevel(optimizationLevel, jobKeywords) ==
  OptimizeFor([kind |-> "optimizeResume", resumeText |-> call.resumeText,
               jobDescription |-> call.jobDescription,
               optimizationLevel |-> optimizationLevel], jobKeywords)

\* the three results of steps 2 to 7
AtLevels(jobKeywords) ==
  [optimizationLevel \in {"basic", "standard", "aggressive"} |->
     AtLevel(optimizationLevel, jobKeywords)]

AgreeOnScores(at) ==
  /\ at["basic"].outcome = at["standard"].outcome
  /\ at["basic"].outcome = at["aggressive"].outcome
  /\ at["basic"].outcome = "returned"
       => /\ at["basic"].improvements = at["standard"].improvements
          /\ at["basic"].improvements = at["aggressive"].improvements

BasicUnlessNaN(at) ==
  at["basic"].outcome = "returned"
    => Recommendation(at["basic"], at["standard"], at["aggressive"])
         = IF IsNaN(at["basic"].improvements.improvement) THEN "standard" ELSE "basic"

\* steps 2 to 7 alone: the scores do not depend on the level
ScoresIgnoreLevel ==
  (call.op = "compareOptimizationStrategies" /\ result.order = << >>) =>
    \A jobKeywords \in KeywordLists : With(AtLevels(jobKeywords), AgreeOnScores)

\* equal improvements give the basic recommendation, unless they are NaN:
\* every comparison with NaN is false and 'standard' is left
EqualImprovementsRecommendBasic ==
  (call.op = "compareOptimizationStrategies" /\ result.order = << >>) =>
    \A jobKeywords \in KeywordLists : With(AtLevels(jobKeywords), BasicUnlessNaN)

\* some improvement is NaN
SomeImprovementIsNaN ==
  /\ call.op = "compareOptimizationStrategies"
  /\ \E jobKeywords \in KeywordLists :
       /\ AtLevel("basic", jobKeywords).outcome = "returned"
       /\ IsNaN(AtLevel("basic", jobKeywords).improvements.improvement)
====
